---- MODULE Spec2Model ----
(***************************************************************************)
(* page-atelier: the generation adapter (retry / validation), the setting  *)
(* extractor, the consistency checker, the persona evaluator, the          *)
(* aggregate reporter and the /api/analyze orchestrator, as state          *)
(* machines.  Strings of the source that are prose (names, descriptions,   *)
(* prompts) are kept as short ASCII tokens.                                *)
(***************************************************************************)
EXTENDS Integers, Sequences, FiniteSets, TLC

VARIABLES
    study,              \* which operation this behaviour exercises
    provider,           \* LLMConfig.provider of the adapter under use
    maxRetries,         \* LLMAdapter.maxRetries
    calls,              \* one record per generateJSON call: the state of its retry loop
    settingOutcome,     \* how the SettingBuilder operation ended
    checkOutcome,       \* how the ConsistencyChecker operation ended
    slots,              \* what each evaluateAs... promise resolved to
    personasOutcome,    \* how evaluateAllPersonas ended
    reportOutcome,      \* how generateReport ended
    request,            \* POST: the request body and the environment
    pc,                 \* POST: where the handler stands
    settingNote,        \* POST: let settingNote
    consistencyCheck,   \* POST: let consistencyCheck
    personaEvaluations, \* POST: let personaEvaluations
    llmCallsCount,      \* POST: let llmCallsCount
    response,           \* POST: what the handler answered
    givenIssues,        \* the Issue[] a caller holds
    givenActionItems,   \* the ActionItem[] a caller holds
    filterCalls,        \* the filter calls made, each with its arguments and result
    dimensionOutcome    \* how each single-dimension check ended

configVars == <<study, provider, maxRetries>>
stageVars == <<settingOutcome, checkOutcome, slots, personasOutcome, reportOutcome>>
postVars ==
    <<request, pc, settingNote, consistencyCheck, personaEvaluations,
      llmCallsCount, response>>

\* The state of the operations POST does not call.
standaloneVars == <<givenIssues, givenActionItems, filterCalls, dimensionOutcome>>

vars == <<configVars, calls, stageVars, postVars, standaloneVars>>

(***************************************************************************)
(* Values                                                                  *)
(***************************************************************************)

\* JavaScript's undefined where an object is expected (an absent data field, a
\* call not yet made), and where a string is expected (an absent error field).
Undefined == [undefined |-> TRUE]
UndefinedText == "undefined"

\* Text that JSON.parse rejects (prose, a truncated object, the empty string).
Garbage == [garbage |-> TRUE]

\* How an operation ended: with a value, or with an exception.
Returned(value) == [kind |-> "return", value |-> value]
Threw(message) == [kind |-> "throw", message |-> message]

Severities == {"critical", "high", "medium", "low"}

\* IssueSchema: the enumerated fields the validator checks.
IssueConforms(issue) ==
    /\ issue.type \in {"continuity", "character", "world_rules"}
    /\ issue.severity \in Severities

\* {score: z.number().min(0).max(100), issues: z.array(IssueSchema)}
DimensionConforms(d) ==
    /\ d.score >= 0
    /\ d.score <= 100
    /\ \A k \in 1..Len(d.issues) : IssueConforms(d.issues[k])

\* ConsistencyCheckSchema.parse succeeds on v.
\* z.object({ score: z.number(), issues: z.array(IssueSchema) }), the schema
\* each single-dimension check passes: the score is any number.
DimensionCheckConforms(v) ==
    \A k \in 1..Len(v.issues) : IssueConforms(v.issues[k])

\* The schema object of each single-dimension check.
DimensionSchemaOf ==
    [checkContinuity |-> "ContinuityCheck",
     checkCharacterConsistency |-> "CharacterCheck",
     checkWorldRules |-> "WorldRulesCheck"]

DimensionOps == DOMAIN DimensionSchemaOf

ConsistencyCheckConforms(v) ==
    /\ DimensionConforms(v.continuity)
    /\ DimensionConforms(v.character)
    /\ DimensionConforms(v.world_rules)
    /\ v.overall_score >= 0
    /\ v.overall_score <= 100

(***************************************************************************)
(* Generation adapter: validateJSON, retryWithBackoff, generateJSON        *)
(***************************************************************************)

DefaultMaxRetries == 3

\* config.maxRetries ?? 3; the optional field is <<>> when absent, <<n>> when set.
ConstructorMaxRetries(configured) ==
    IF configured = <<>> THEN DefaultMaxRetries ELSE configured[1]

\* The two .replace calls and .trim(): the markdown fence markers are removed.
CleanJson(text) == [text EXCEPT !.fenced = FALSE]

\* JSON.parse: throws on text that still carries a fence or is no JSON at all.
JsonParses(text) == ~text.fenced /\ text.body # Garbage

\* The three persona identities, in the order evaluateAllPersonas lists them.
PersonaOrder ==
    <<"setting_obsessed", "romance_sub_focused", "traditional_martial_arts_fan">>

PersonaTypes == {PersonaOrder[k] : k \in 1..3}

\* PersonaMetricsSchema
MetricsConform(m) ==
    /\ m.satisfaction >= 0 /\ m.satisfaction <= 100
    /\ m.engagement >= 0 /\ m.engagement <= 100
    /\ m.frustration >= 0 /\ m.frustration <= 100

\* PersonaResultSchema.parse succeeds on v.
PersonaResultConforms(v) ==
    /\ v.persona_type \in PersonaTypes
    /\ MetricsConform(v.metrics)
    /\ v.overall_reaction \in
           {"very_positive", "positive", "neutral", "negative", "very_negative"}

Importances == {"critical", "high", "medium", "low"}

\* CharacterSchema.parse succeeds on v.
CharacterConforms(v) ==
    /\ v.role \in {"protagonist", "antagonist", "supporting", "minor"}
    /\ \A k \in 1..Len(v.relationships) : v.relationships[k].type \in
               {"family", "friend", "enemy", "love", "mentor", "rival", "other"}

\* WorldRuleSchema.parse succeeds on v.
WorldRuleConforms(v) ==
    /\ v.category \in {"magic", "society", "technology", "culture", "physics", "other"}
    /\ v.importance \in Importances

\* TimelineEventSchema.parse succeeds on v.
TimelineEventConforms(v) == v.importance \in Importances

\* SettingNoteSchema.parse succeeds on v.
SettingNoteConforms(v) ==
    /\ \A k \in 1..Len(v.characters) : CharacterConforms(v.characters[k])
    /\ \A k \in 1..Len(v.world_rules) : WorldRuleConforms(v.world_rules[k])
    /\ \A k \in 1..Len(v.timeline) : TimelineEventConforms(v.timeline[k])

\* A JSON array at the top level is the record [items |-> <<...>>].
JsonArray(items) == [items |-> items]

IsArray(v) == DOMAIN v = {"items"}

\* schema.parse(parsed) for the schema the caller passed.
SchemaConforms(schema, v) ==
    CASE schema = "ConsistencyCheck" -> ConsistencyCheckConforms(v)
      [] schema = "PersonaResult" -> PersonaResultConforms(v)
      [] schema = "SettingNote" -> SettingNoteConforms(v)
      [] schema = "Characters" ->
            IsArray(v) /\ \A k \in 1..Len(v.items) : CharacterConforms(v.items[k])
      [] schema = "WorldRules" ->
            IsArray(v) /\ \A k \in 1..Len(v.items) : WorldRuleConforms(v.items[k])
      [] schema = "Timeline" ->
            IsArray(v) /\ \A k \in 1..Len(v.items) : TimelineEventConforms(v.items[k])
      [] schema \in {DimensionSchemaOf[op] : op \in DimensionOps} -> DimensionCheckConforms(v)
      [] OTHER -> FALSE

\* validateJSON without schema.parse: whatever parses is returned.
ValidateJSONParseOnly(text, schema) ==
    LET cleanJson == CleanJson(text) IN
    IF ~JsonParses(cleanJson) THEN Undefined ELSE cleanJson.body

\* validateJSON: the parsed and validated value, or null (here Undefined).
ValidateJSON(text, schema) ==
    LET cleanJson == CleanJson(text) IN
    IF ~JsonParses(cleanJson) THEN Undefined
    ELSE IF ~SchemaConforms(schema, cleanJson.body) THEN Undefined
    ELSE cleanJson.body

InvalidJsonMessage == "Invalid JSON response from model"
MaxRetriesExceededMessage == "Max retries exceeded"

Min(a, b) == IF a < b THEN a ELSE b

RECURSIVE Pow2(_)
Pow2(n) == IF n = 0 THEN 1 ELSE 2 * Pow2(n - 1)

\* Math.min(1000 * Math.pow(2, i), 10000)
\* The delay doubling without a ceiling.
BackoffDelayUncapped(i) == 1000 * Pow2(i)

BackoffDelay(i) == Min(1000 * Pow2(i), 10000)

\* generateJSON's success result.
SuccessResponse(data) ==
    [success |-> TRUE, data |-> data, error |-> UndefinedText]

\* generateJSON's catch block: error.message of what retryWithBackoff threw.
FailureResponse(message) == [success |-> FALSE, data |-> Undefined, error |-> message]

\* A generateJSON call that has not been made.  pc, schema, i and result are
\* the call's own state; the other fields record what happened to it:
\* invocations counts the backend invocations, delays lists the backoff waits,
\* and transportFailures, validationFailures, okAt and lastError are kept by
\* Observe below.
IdleCall ==
    [pc |-> "idle", schema |-> "none", i |-> 0, invocations |-> 0,
     transportFailures |-> 0, validationFailures |-> 0, okAt |-> 0,
     lastError |-> UndefinedText, delays |-> <<>>, result |-> Undefined]

\* The loop test written i <= retries.
LoopHeadInclusive(call, i) ==
    IF i <= maxRetries
    THEN [call EXCEPT !.pc = "waiting", !.i = i,
                      !.invocations = call.invocations + 1]
    ELSE [call EXCEPT !.pc = "done", !.i = i,
                      !.result = FailureResponse("Max retries exceeded")]

\* The loop test drawing on one budget of attempts for all the persona calls
\* of the adapter.
LoopHeadSharedBudget(call, i) ==
    IF i < maxRetries
         /\ (i = 0 \/ calls["setting_obsessed"].invocations
                         + calls["romance_sub_focused"].invocations
                         + calls["traditional_martial_arts_fan"].invocations < maxRetries + 2)
    THEN [call EXCEPT !.pc = "waiting", !.i = i,
                      !.invocations = call.invocations + 1]
    ELSE [call EXCEPT !.pc = "done", !.i = i,
                      !.result = FailureResponse(MaxRetriesExceededMessage)]

\* The for loop's test and the body up to `await fn()`: with attempts left the
\* backend is invoked and the call waits for it; otherwise the loop is left
\* and 'Max retries exceeded' is thrown into generateJSON's catch.
LoopHead(call, i) ==
    IF i < maxRetries
    THEN [call EXCEPT !.pc = "waiting", !.i = i,
                      !.invocations = call.invocations + 1]
    ELSE [call EXCEPT !.pc = "done", !.i = i,
                      !.result = FailureResponse(MaxRetriesExceededMessage)]

\* generateJSON(prompt, schema, systemPrompt) up to its first suspension.
BeginCall(schema) == LoopHead([IdleCall EXCEPT !.schema = schema], 0)

\* The catch block leaving the loop on the last attempt instead of rethrowing,
\* so that the generic error after the loop is what the caller sees.
CatchAttemptBreaks(call, message) ==
    IF call.i = maxRetries - 1
    THEN [call EXCEPT !.pc = "done",
                      !.result = FailureResponse("Max retries exceeded")]
    ELSE [call EXCEPT !.pc = "backoff",
                      !.delays = Append(call.delays, BackoffDelay(call.i))]

\* The catch block of retryWithBackoff for the error `message` of attempt i.
CatchAttempt(call, message) ==
    IF call.i = maxRetries - 1
    THEN [call EXCEPT !.pc = "done", !.result = FailureResponse(message)]
    ELSE [call EXCEPT !.pc = "backoff",
                      !.delays = Append(call.delays, BackoffDelay(call.i))]

\* What the backend does with one invocation: it throws, or it answers text.
TransportErrors == {"ETIMEDOUT", "quota exceeded"}

\* body is Undefined when the answer carries no content at all.
BackendOutcomes(payloads) ==
    [kind : {"throw"}, message : TransportErrors]
        \cup [kind : {"text"}, fenced : {FALSE}, body : {Garbage, Undefined}]
        \cup [kind : {"text"}, fenced : BOOLEAN, body : payloads]

\* response.response.text() (Gemini); choices[0]?.message?.content || '' (OpenAI):
\* an answer without content is the empty string, which is no JSON.
ResponseText(outcome) ==
    [fenced |-> outcome.fenced,
     body |-> IF outcome.body = Undefined THEN Garbage ELSE outcome.body]

\* The rest of fn() once the backend has answered, and generateJSON's return.
AfterBackend(call, outcome) ==
    IF outcome.kind = "throw"
    THEN CatchAttempt(call, outcome.message)
    ELSE LET validated == ValidateJSON(ResponseText(outcome), call.schema) IN
         IF validated = Undefined
         THEN CatchAttempt(call, InvalidJsonMessage)
         ELSE [call EXCEPT !.pc = "done", !.result = SuccessResponse(validated)]

\* The record of what the backend did, kept beside the call: an exception is a
\* transport failure; text that is no JSON, or JSON outside the schema, is a
\* validation failure; anything else is the call's valid answer.
Observe(call, outcome) ==
    IF outcome.kind = "throw"
    THEN [call EXCEPT !.transportFailures = @ + 1, !.lastError = outcome.message]
    ELSE IF outcome.body \in {Garbage, Undefined}
            \/ ~SchemaConforms(call.schema, outcome.body)
    THEN [call EXCEPT !.validationFailures = @ + 1, !.lastError = InvalidJsonMessage]
    ELSE [call EXCEPT !.okAt = call.invocations]

(***************************************************************************)
(* Number arithmetic of the weighted averages.  A JavaScript number is an  *)
(* IEEE-754 double; 0.4 and 0.35 are not representable, so a product such  *)
(* as 90 * 0.35 is 31.499999999999996 and not 31.5.  A non-negative double *)
(* below 128 is held exactly as <<h, m, l>>, the integer                   *)
(* h * 2^42 + m * 2^21 + l in units of 2^-54.                              *)
(***************************************************************************)

LimbBase == Pow2(21)

\* The limbs brought back into 0..LimbBase-1.
Carry(x) ==
    LET m1 == x[2] + (x[3] \div LimbBase) IN
    <<x[1] + (m1 \div LimbBase), m1 % LimbBase, x[3] % LimbBase>>

\* The number of bits by which the integer exceeds the 53 bits of a
\* significand: h < 2^11 means the integer is below 2^53.
RECURSIVE ExcessBits(_, _)
ExcessBits(h, k) == IF h < Pow2(11 + k) THEN k ELSE ExcessBits(h, k + 1)

\* Round to nearest double, ties to even: what every * and + ends with.
RoundToDouble(x) ==
    LET q == Pow2(ExcessBits(x[1], 0))
        r == x[3] % q
        odd == (x[3] \div q) % 2 = 1
    IN  IF r = 0 THEN x
        ELSE IF 2 * r > q \/ (2 * r = q /\ odd)
        THEN Carry(<<x[1], x[2], x[3] - r + q>>)
        ELSE <<x[1], x[2], x[3] - r>>

\* The doubles nearest to the weights 0.4, 0.35 and 0.25.
Double040 == <<1638, 838860, 1677722>>
Double035 == <<1433, 1258291, 419430>>
Double025 == <<1024, 0, 0>>

\* score * weight for an integer score.
FloatTimes(n, d) == RoundToDouble(Carry(<<n * d[1], n * d[2], n * d[3]>>))

\* x + y
FloatPlus(x, y) == RoundToDouble(Carry(<<x[1] + y[1], x[2] + y[2], x[3] + y[3]>>))

\* Math.round: the nearest integer, a fraction of one half going up.
MathRound(x) ==
    (x[1] \div Pow2(12)) + (IF x[1] % Pow2(12) >= Pow2(11) THEN 1 ELSE 0)

\* Math.round(continuity * 0.4 + character * 0.35 + world_rules * 0.25)
RoundedWeightedSum(c, h, w) ==
    MathRound(FloatPlus(FloatPlus(FloatTimes(c, Double040), FloatTimes(h, Double035)),
                        FloatTimes(w, Double025)))

(***************************************************************************)
(* Consistency checker                                                     *)
(***************************************************************************)

Issue(type, severity, fix) ==
    [type |-> type, severity |-> severity,
     description |-> "description", suggested_fix |-> fix]

Dimension(score, issues) == [score |-> score, issues |-> issues]

Check(continuity, character, worldRules, overall) ==
    [continuity |-> continuity, character |-> character,
     world_rules |-> worldRules, overall_score |-> overall]

\* calculateWeightedScore: {...check, overall_score: Math.round(weightedScore)}
CalculateWeightedScore(check) ==
    [check EXCEPT !.overall_score =
        RoundedWeightedSum(check.continuity.score, check.character.score,
                           check.world_rules.score)]

\* The default check with the single-dimension fallback score.
GetDefaultCheckOptimistic ==
    Check(Dimension(85, <<>>), Dimension(85, <<>>), Dimension(85, <<>>), 85)

\* getDefaultCheck
GetDefaultCheck ==
    Check(Dimension(75, <<>>), Dimension(75, <<>>), Dimension(75, <<>>), 75)

\* checkContinuity / checkCharacterConsistency / checkWorldRules from the
\* adapter's response on: response.data || { score: 85, issues: [] }.
CheckDimensionResult(llmResponse) ==
    IF llmResponse.data = Undefined
    THEN Returned(Dimension(85, <<>>))
    ELSE Returned(llmResponse.data)

\* checkConsistency from the adapter's response on.
CheckConsistencyResult(llmResponse) ==
    IF ~llmResponse.success \/ llmResponse.data = Undefined
    THEN Returned(GetDefaultCheck)
    ELSE Returned(CalculateWeightedScore(llmResponse.data))

(***************************************************************************)
(* Setting builder                                                         *)
(***************************************************************************)

\* Text is a sequence of collation weights, one per character; the texts used
\* here are made of decimal digits and the syllable "jang" (chapter), which
\* every locale orders by these weights.
Digit(d) == 48 + d

Jang == 51109

\* a.localeCompare(b) < 0, = 0, > 0 as -1, 0, 1.
RECURSIVE LocaleCompare(_, _)
LocaleCompare(a, b) ==
    IF a = <<>> THEN (IF b = <<>> THEN 0 ELSE -1)
    ELSE IF b = <<>> THEN 1
    ELSE IF a[1] < b[1] THEN -1
    ELSE IF a[1] > b[1] THEN 1
    ELSE LocaleCompare(Tail(a), Tail(b))

\* The sort placing an event before the events of its own timestamp.
RECURSIVE SortTimelineUnstable(_)
SortTimelineUnstable(events) ==
    IF events = <<>> THEN <<>>
    ELSE LET n == Len(events)
             e == events[n]
             sorted == SortTimelineUnstable(SubSeq(events, 1, n - 1))
             before == SelectSeq(sorted,
                           LAMBDA x : LocaleCompare(x.timestamp, e.timestamp) < 0)
             after == SelectSeq(sorted,
                           LAMBDA x : LocaleCompare(x.timestamp, e.timestamp) >= 0)
         IN  before \o <<e>> \o after

\* Array.prototype.sort with the comparator of enhanceSettingNote: stable.
RECURSIVE SortTimeline(_)
SortTimeline(events) ==
    IF events = <<>> THEN <<>>
    ELSE LET n == Len(events)
             e == events[n]
             sorted == SortTimeline(SubSeq(events, 1, n - 1))
             before == SelectSeq(sorted,
                           LAMBDA x : LocaleCompare(x.timestamp, e.timestamp) <= 0)
             after == SelectSeq(sorted,
                           LAMBDA x : LocaleCompare(x.timestamp, e.timestamp) > 0)
         IN  before \o <<e>> \o after

\* A test that takes only undefined for a missing string.
FalsyUndefinedOnly(text) == text = UndefinedText

\* !value for an optional string: undefined and '' are falsy.
Falsy(text) == text = UndefinedText \/ text = ""

DefaultSpeechPattern == "pyojuneo sayong, jeongjunghan eotu"

DefaultEvidence == "tekseuteu jeonbane geolchyeo amsidoem"

\* enhanceSettingNote without the pruning of relationships.
EnhanceSettingNoteKeepsAll(note) ==
    LET EnhanceCharacter(character) ==
            [character EXCEPT
                !.speech_pattern = IF character.role = "protagonist" /\ Falsy(@)
                                   THEN DefaultSpeechPattern ELSE @]
        EnhanceRule(rule) ==
            [rule EXCEPT
                !.evidence = IF rule.importance = "critical" /\ Falsy(@)
                             THEN DefaultEvidence ELSE @]
    IN  [note EXCEPT
            !.characters = [k \in 1..Len(@) |-> EnhanceCharacter(@[k])],
            !.timeline = SortTimeline(@),
            !.world_rules = [k \in 1..Len(@) |-> EnhanceRule(@[k])]]

\* enhanceSettingNote
EnhanceSettingNote(note) ==
    LET characterNames == {note.characters[k].name : k \in 1..Len(note.characters)}
        EnhanceCharacter(character) ==
            [character EXCEPT
                !.relationships = SelectSeq(@, LAMBDA rel : rel.character \in characterNames),
                !.speech_pattern = IF character.role = "protagonist" /\ Falsy(@)
                                   THEN DefaultSpeechPattern ELSE @]
        EnhanceRule(rule) ==
            [rule EXCEPT
                !.evidence = IF rule.importance = "critical" /\ Falsy(@)
                             THEN DefaultEvidence ELSE @]
    IN  [note EXCEPT
            !.characters = [k \in 1..Len(@) |-> EnhanceCharacter(@[k])],
            !.timeline = SortTimeline(@),
            !.world_rules = [k \in 1..Len(@) |-> EnhanceRule(@[k])]]

FailedSettingNotePrefix == "Failed to generate setting note: "

\* generateSettingNote from the adapter's response on, with the failure
\* swallowed into an empty note.
GenerateSettingNoteQuiet(llmResponse) ==
    IF ~llmResponse.success \/ llmResponse.data = Undefined
    THEN Returned([title |-> "", genre |-> <<>>, characters |-> <<>>,
                   world_rules |-> <<>>, timeline |-> <<>>, summary |-> ""])
    ELSE Returned(EnhanceSettingNote(llmResponse.data))

\* generateSettingNote from the adapter's response on.
GenerateSettingNoteResult(llmResponse) ==
    IF ~llmResponse.success \/ llmResponse.data = Undefined
    THEN Threw(<<FailedSettingNotePrefix, llmResponse.error>>)
    ELSE Returned(EnhanceSettingNote(llmResponse.data))

\* extractCharacters / extractWorldRules / extractTimeline from the adapter's
\* response on: response.data || []
ExtractResult(llmResponse) ==
    IF llmResponse.data # Undefined
    THEN Returned(llmResponse.data.items)
    ELSE Returned(<<>>)

\* The operations of SettingBuilder and the schema each passes to generateJSON.
SchemaOf ==
    [generateSettingNote |-> "SettingNote",
     extractCharacters |-> "Characters",
     extractWorldRules |-> "WorldRules",
     extractTimeline |-> "Timeline"]

SettingOps == DOMAIN SchemaOf

ExtractOps == SettingOps \ {"generateSettingNote"}

(***************************************************************************)
(* Persona evaluator                                                       *)
(***************************************************************************)

\* PersonaEvaluator.personas: the configured name and description of each.
Personas ==
    [setting_obsessed |->
        [name |-> "Seoljeong gwamoliphyeong dokja",
         description |-> "values the logic of world rules and power systems"],
     romance_sub_focused |->
        [name |-> "Ropan seobeujuchongreo",
         description |-> "values romance, emotion and relationships"],
     traditional_martial_arts_fan |->
        [name |-> "Jeongtong muhyeop paen",
         description |-> "values traditional martial arts and chivalry"]]

\* getDefaultPersonaResult with the persona's own entry ignored.
GetDefaultPersonaResultFirstPersona(personaType) ==
    [persona_type |-> "setting_obsessed",
     persona_name |-> Personas["setting_obsessed"].name,
     persona_description |-> Personas["setting_obsessed"].description,
     metrics |-> [satisfaction |-> 70, engagement |-> 70, frustration |-> 30],
     likes |-> <<"basic story structure", "easy to read">>,
     dislikes |-> <<"needs deeper analysis">>,
     suggestions |-> <<"add more detailed description", "develop the characters">>,
     overall_reaction |-> "neutral",
     sample_comment |-> "have to read more to tell"]

\* The fallback result of a dissatisfied reader.
GetDefaultPersonaResultDissatisfied(personaType) ==
    [persona_type |-> personaType,
     persona_name |-> Personas[personaType].name,
     persona_description |-> Personas[personaType].description,
     metrics |-> [satisfaction |-> 50, engagement |-> 70, frustration |-> 30],
     likes |-> <<"basic story structure", "easy to read">>,
     dislikes |-> <<"needs deeper analysis">>,
     suggestions |-> <<"add more detailed description", "develop the characters">>,
     overall_reaction |-> "neutral",
     sample_comment |-> "have to read more to tell"]

\* getDefaultPersonaResult
GetDefaultPersonaResult(personaType) ==
    [persona_type |-> personaType,
     persona_name |-> Personas[personaType].name,
     persona_description |-> Personas[personaType].description,
     metrics |-> [satisfaction |-> 70, engagement |-> 70, frustration |-> 30],
     likes |-> <<"basic story structure", "easy to read">>,
     dislikes |-> <<"needs deeper analysis">>,
     suggestions |-> <<"add more detailed description", "develop the characters">>,
     overall_reaction |-> "neutral",
     sample_comment |-> "have to read more to tell"]

\* evaluateAsSettingObsessed / evaluateAsRomanceSubFocused /
\* evaluateAsTraditionalMartialArtsFan from the adapter's response on:
\* response.data || this.getDefaultPersonaResult(type)
EvaluateAsResult(personaType, llmResponse) ==
    IF llmResponse.data # Undefined
    THEN llmResponse.data
    ELSE GetDefaultPersonaResult(personaType)

\* What the three promises have resolved to, given the three calls.
SlotsOf(cs) ==
    [p \in PersonaTypes |->
        IF cs[p].pc = "done" THEN EvaluateAsResult(p, cs[p].result) ELSE Undefined]

\* A Promise.all that stays pending.
PromiseAllPending(resolved) == Undefined

\* Promise.all: pending until all three have resolved, then the array of the
\* three values in the order the promises were listed.
PromiseAll(resolved) ==
    IF \A p \in PersonaTypes : resolved[p] # Undefined
    THEN Returned([k \in 1..3 |-> resolved[PersonaOrder[k]]])
    ELSE Undefined

(***************************************************************************)
(* Aggregate report generator                                              *)
(***************************************************************************)

\* An integer score as a double.
AsDouble(n) == <<n * Pow2(12), 0, 0>>

\* calculateWeightedScores
CalculateWeightedScores(check) ==
    LET continuity == MathRound(AsDouble(check.continuity.score))
        character == MathRound(AsDouble(check.character.score))
        worldRules == MathRound(AsDouble(check.world_rules.score))
    IN  [continuity |-> continuity,
         character |-> character,
         world_rules |-> worldRules,
         total |-> RoundedWeightedSum(continuity, character, worldRules)]

\* verdictThresholds
PassThreshold == 80

ReviseThreshold == 60

\* determineVerdict with the thresholds themselves left out of their bands.
DetermineVerdictStrict(totalScore) ==
    IF totalScore > PassThreshold THEN "PASS"
    ELSE IF totalScore > ReviseThreshold THEN "REVISE"
    ELSE "BLOCK"

\* determineVerdict
DetermineVerdict(totalScore) ==
    IF totalScore >= PassThreshold THEN "PASS"
    ELSE IF totalScore >= ReviseThreshold THEN "REVISE"
    ELSE "BLOCK"

\* issueToActionItem with one effort for every severity.
IssueToActionItemFlatEffort(issue) ==
    [priority |-> issue.severity,
     type |-> CASE issue.severity \in {"critical", "high"} -> "fix_required"
                [] issue.severity = "medium" -> "improvement"
                [] issue.severity = "low" -> "consideration",
     description |-> IF Falsy(issue.suggested_fix) THEN issue.description
                     ELSE issue.suggested_fix,
     affected_area |-> issue.type,
     estimated_effort |-> "moderate"]

\* issueToActionItem
IssueToActionItem(issue) ==
    [priority |-> issue.severity,
     type |-> CASE issue.severity \in {"critical", "high"} -> "fix_required"
                [] issue.severity = "medium" -> "improvement"
                [] issue.severity = "low" -> "consideration",
     description |-> IF Falsy(issue.suggested_fix) THEN issue.description
                     ELSE issue.suggested_fix,
     affected_area |-> issue.type,
     estimated_effort |-> CASE issue.severity = "critical" -> "significant"
                            [] issue.severity \in {"high", "medium"} -> "moderate"
                            [] issue.severity = "low" -> "minimal"]

\* The three issue lists spread into one.
AllIssues(check) ==
    check.continuity.issues \o check.character.issues \o check.world_rules.issues

\* suggestions.slice(0, 2)
FirstTwo(seq) == SubSeq(seq, 1, Min(2, Len(seq)))

SatisfactionFloor == 60

\* The action items one persona contributes, the floor itself included.
PersonaActionItemsInclusive(persona) ==
    IF persona.metrics.satisfaction <= SatisfactionFloor
    THEN [k \in 1..Len(FirstTwo(persona.suggestions)) |->
            [priority |-> "high",
             type |-> "improvement",
             description |-> <<"[", persona.persona_name, "] ", persona.suggestions[k]>>,
             affected_area |-> "reader_satisfaction",
             estimated_effort |-> "moderate"]]
    ELSE <<>>

\* The action items one persona contributes.
PersonaActionItems(persona) ==
    IF persona.metrics.satisfaction < SatisfactionFloor
    THEN [k \in 1..Len(FirstTwo(persona.suggestions)) |->
            [priority |-> "high",
             type |-> "improvement",
             description |-> <<"[", persona.persona_name, "] ", persona.suggestions[k]>>,
             affected_area |-> "reader_satisfaction",
             estimated_effort |-> "moderate"]]
    ELSE <<>>

\* The sequences of a sequence, one after another.
RECURSIVE Flatten(_)
Flatten(seqs) ==
    IF seqs = <<>> THEN <<>> ELSE Head(seqs) \o Flatten(Tail(seqs))

PriorityOrder == <<"critical", "high", "medium", "low">>

\* actionItems.sort left out: the items in the order they were pushed.
SortByPriorityNone(items) == items

\* actionItems.sort by the index in priorityOrder: a stable sort, so the
\* items of each priority in their original order, priority after priority.
SortByPriority(items) ==
    Flatten([k \in 1..Len(PriorityOrder) |->
                SelectSeq(items, LAMBDA item : item.priority = PriorityOrder[k])])

MaxActionItems == 10

\* generateActionItems cutting the list to ten before it is sorted.
GenerateActionItemsCutFirst(check, evaluations) ==
    LET severe == SelectSeq(AllIssues(check),
                            LAMBDA issue : issue.severity \in {"critical", "high"})
        fromIssues == [k \in 1..Len(severe) |-> IssueToActionItem(severe[k])]
        fromPersonas ==
            Flatten([k \in 1..Len(evaluations) |-> PersonaActionItems(evaluations[k])])
        all == fromIssues \o fromPersonas
    IN  SortByPriority(SubSeq(all, 1, Min(MaxActionItems, Len(all))))

\* generateActionItems
GenerateActionItems(check, evaluations) ==
    LET severe == SelectSeq(AllIssues(check),
                            LAMBDA issue : issue.severity \in {"critical", "high"})
        fromIssues == [k \in 1..Len(severe) |-> IssueToActionItem(severe[k])]
        fromPersonas ==
            Flatten([k \in 1..Len(evaluations) |-> PersonaActionItems(evaluations[k])])
        sorted == SortByPriority(fromIssues \o fromPersonas)
    IN  SubSeq(sorted, 1, Min(MaxActionItems, Len(sorted)))

Max(a, b) == IF a > b THEN a ELSE b

\* calculateConfidenceScore without the floor under the critical issues.
CalculateConfidenceScoreNoFloor(check, evaluations) ==
    LET positiveCount ==
            Len(SelectSeq(evaluations,
                          LAMBDA p : p.overall_reaction \in {"very_positive", "positive"}))
        agreed == IF positiveCount = 3 THEN Min(100, check.overall_score + 10)
                  ELSE IF positiveCount = 0 THEN Max(0, check.overall_score - 10)
                  ELSE check.overall_score
        criticalIssues ==
            Len(SelectSeq(AllIssues(check), LAMBDA i : i.severity = "critical"))
    IN  agreed - criticalIssues * 5

\* calculateConfidenceScore
CalculateConfidenceScore(check, evaluations) ==
    LET positiveCount ==
            Len(SelectSeq(evaluations,
                          LAMBDA p : p.overall_reaction \in {"very_positive", "positive"}))
        agreed == IF positiveCount = 3 THEN Min(100, check.overall_score + 10)
                  ELSE IF positiveCount = 0 THEN Max(0, check.overall_score - 10)
                  ELSE check.overall_score
        criticalIssues ==
            Len(SelectSeq(AllIssues(check), LAMBDA i : i.severity = "critical"))
    IN  MathRound(AsDouble(Max(0, agreed - criticalIssues * 5)))

RECURSIVE SumSatisfaction(_)
SumSatisfaction(evaluations) ==
    IF evaluations = <<>> THEN 0
    ELSE Head(evaluations).metrics.satisfaction
            + SumSatisfaction(Tail(evaluations))

NaN == [nan |-> TRUE]

\* Math.round(sum / length): 0 / 0 is NaN; otherwise the quotient of two
\* integers rounded to the nearest integer, a fraction of one half going up.
AverageSatisfaction(evaluations) ==
    LET n == Len(evaluations) IN
    IF n = 0 THEN NaN
    ELSE [number |-> (2 * SumSatisfaction(evaluations) + n) \div (2 * n)]

\* generateExecutiveSummary: the parts the template puts together.
GenerateExecutiveSummary(verdict, scores, check, evaluations) ==
    [verdictText |-> CASE verdict = "PASS" -> "chulgan ganeung"
                       [] verdict = "REVISE" -> "sujeong piryo"
                       [] verdict = "BLOCK" -> "daepok sujeong piryo",
     total |-> scores.total,
     continuity |-> scores.continuity,
     character |-> scores.character,
     world_rules |-> scores.world_rules,
     totalIssues |-> Len(check.continuity.issues) + Len(check.character.issues)
                        + Len(check.world_rules.issues),
     avgSatisfaction |-> AverageSatisfaction(evaluations),
     closing |-> verdict]

ReduceOfEmptyArray == "TypeError: Reduce of empty array with no initial value"

\* personaEvaluations.reduce((min, p) => p.satisfaction < min.satisfaction ? p : min)
\* on a non-empty array: the first of the least satisfied.
RECURSIVE LowestSatisfaction(_, _)
LowestSatisfaction(min, rest) ==
    IF rest = <<>> THEN min
    ELSE LowestSatisfaction(
            IF Head(rest).metrics.satisfaction < min.metrics.satisfaction
            THEN Head(rest) ELSE min,
            Tail(rest))

\* generateRecommendation: the parts the template puts together, or the
\* TypeError of reduce on an empty array.
GenerateRecommendation(verdict, actionItems, evaluations) ==
    LET criticalItems == Len(SelectSeq(actionItems, LAMBDA item : item.priority = "critical"))
        highItems == Len(SelectSeq(actionItems, LAMBDA item : item.priority = "high"))
    IN  IF evaluations = <<>> THEN Threw(ReduceOfEmptyArray)
        ELSE LET lowest == LowestSatisfaction(Head(evaluations),
                                              Tail(evaluations))
             IN  Returned(
                    CASE verdict = "PASS" ->
                            [heading |-> "chucheon sahang", highItems |-> highItems,
                             persona |-> lowest.persona_name]
                      [] verdict = "REVISE" ->
                            [heading |-> "pilsu sujeong sahang",
                             criticalItems |-> criticalItems, highItems |-> highItems,
                             persona |-> lowest.persona_name]
                      [] verdict = "BLOCK" ->
                            [heading |-> "gingeup jochi piryo",
                             criticalItems |-> criticalItems])

\* generateReport
GenerateReport(check, evaluations) ==
    LET weightedScores == CalculateWeightedScores(check)
        verdict == DetermineVerdict(weightedScores.total)
        actionItems == GenerateActionItems(check, evaluations)
        confidenceScore == CalculateConfidenceScore(check, evaluations)
        executiveSummary ==
            GenerateExecutiveSummary(verdict, weightedScores, check, evaluations)
        recommendation == GenerateRecommendation(verdict, actionItems, evaluations)
    IN  IF recommendation.kind = "throw" THEN recommendation
        ELSE Returned([verdict |-> verdict,
                       confidence_score |-> confidenceScore,
                       weighted_scores |-> weightedScores,
                       action_items |-> actionItems,
                       executive_summary |-> executiveSummary,
                       recommendation |-> recommendation.value])

(***************************************************************************)
(* POST /api/analyze.  The route file holds two versions of the handler;   *)
(* this is the first, the one with a fallback for every stage.             *)
(***************************************************************************)

MinTextLength == 100

MaxTextLength == 50000

\* AnalyzeRequestSchema.safeParse(body).success; a text is its length and
\* whether the name Hong Gildong occurs in it.
RequestConforms(body) ==
    /\ body.text.length >= MinTextLength
    /\ body.text.length <= MaxTextLength

RouteMaxRetries == 3

\* getDefaultSettingNote
GetDefaultSettingNote(text) ==
    [title |-> IF text.mentionsHongGildong THEN "Hong Gildong jeon" ELSE "muje",
     genre |-> <<"muhyeop", "gojeon", "yeongung seosa">>,
     characters |->
        <<[name |-> "Hong Gildong", role |-> "protagonist",
           traits |-> <<"righteous", "filial", "martial", "bright", "grief">>,
           goals |-> <<"rise", "justice", "recognition", "hwalbindang">>,
           relationships |->
              <<[character |-> "Hong daegam", type |-> "family",
                 description |-> "father"],
                [character |-> "Hong Inhyeong", type |-> "family",
                 description |-> "elder brother"],
                [character |-> "Chunseom", type |-> "family",
                 description |-> "mother"]>>,
           speech_pattern |-> "polite and formal",
           taboo_actions |-> <<"calls father father", "calls brother brother">>],
          [name |-> "Hong Inhyeong", role |-> "antagonist",
           traits |-> <<"jealous", "cruel", "superior">>,
           goals |-> <<"remove Gildong", "family honour">>,
           relationships |->
              <<[character |-> "Hong Gildong", type |-> "family",
                 description |-> "younger brother"]>>,
           speech_pattern |-> "authoritative and cold"],
          [name |-> "Hong daegam", role |-> "supporting",
           traits |-> <<"strict", "traditional", "affection">>,
           goals |-> <<"keep the family", "keep face">>,
           relationships |->
              <<[character |-> "Hong Gildong", type |-> "family",
                 description |-> "son"]>>,
           speech_pattern |-> "authoritative and formal"]>>,
     world_rules |->
        <<[category |-> "society", rule |-> "status system", importance |-> "critical",
           evidence |-> "cannot call father father"],
          [category |-> "magic", rule |-> "sorcery exists", importance |-> "high",
           evidence |-> "Gildong uses sorcery"],
          [category |-> "culture", rule |-> "patriarchy", importance |-> "critical",
           evidence |-> "honour and filial piety"]>>,
     timeline |->
        <<[timestamp |-> <<Digit(1), Jang>>, event |-> "birth",
           involved_characters |-> <<"Hong Gildong", "Chunseom", "Hong daegam">>,
           importance |-> "critical"],
          [timestamp |-> <<Digit(2), Jang>>, event |-> "lament",
           involved_characters |-> <<"Hong Gildong", "Hong daegam">>,
           importance |-> "high"],
          [timestamp |-> <<Digit(3), Jang>>, event |-> "assassin",
           involved_characters |-> <<"Hong Gildong", "Hong Inhyeong">>,
           importance |-> "critical"],
          [timestamp |-> <<Digit(4), Jang>>, event |-> "leaves home",
           involved_characters |-> <<"Hong Gildong">>,
           importance |-> "critical"]>>,
     summary |-> "the story of Hong Gildong"]

\* The check POST falls back on when checkConsistency throws.
RouteDefaultCheck ==
    Check(Dimension(75, <<>>), Dimension(75, <<>>), Dimension(75, <<>>), 75)

\* One of the persona results POST falls back on when evaluateAllPersonas
\* throws; these carry no sample_comment.
RouteDefaultPersona(type, satisfaction, reaction, suggestion) ==
    [persona_type |-> type,
     persona_name |-> Personas[type].name,
     persona_description |-> Personas[type].description,
     metrics |-> [satisfaction |-> satisfaction, engagement |-> satisfaction,
                  frustration |-> 100 - satisfaction],
     likes |-> <<"like">>,
     dislikes |-> <<"dislike">>,
     suggestions |-> <<suggestion>>,
     overall_reaction |-> reaction]

RouteDefaultPersonas ==
    <<RouteDefaultPersona("setting_obsessed", 70, "positive", "add sorcery training"),
      RouteDefaultPersona("romance_sub_focused", 60, "neutral", "add a female character"),
      RouteDefaultPersona("traditional_martial_arts_fan", 80, "positive", "add duels")>>

InvalidRequestResponse ==
    [status |-> 400, body |-> [success |-> FALSE, error |-> "Invalid request format"]]

MissingKeyResponse ==
    [status |-> 500, body |-> [success |-> FALSE, error |-> "Gemini API key not configured"]]

\* The response of the outer catch.
ErrorResponse(message) ==
    [status |-> 500,
     body |-> [success |-> FALSE, error |-> message, partial_data |-> "null"]]

SnippetLength == 200

\* The Analysis envelope; id, timestamp and processing time are left out.
AnalysisResponse(text, note, check, evaluations, report, count) ==
    [status |-> 200,
     body |-> [success |-> TRUE,
               data |-> [input |-> [text |-> [length |-> Min(SnippetLength, text.length) + 3],
                                    metadata |-> [title |-> note.title, chapter |-> 1]],
                         setting_note |-> note,
                         consistency_check |-> check,
                         persona_evaluations |-> evaluations,
                         aggregate_report |-> report,
                         llm_calls_count |-> count,
                         status |-> "success"]]]

\* Step 4 and what follows it: generateReport, then the envelope, or the
\* outer catch when generateReport throws.
Step4Response(text, note, check, evaluations, count) ==
    LET report == GenerateReport(check, evaluations) IN
    IF report.kind = "throw"
    THEN ErrorResponse(report.message)
    ELSE AnalysisResponse(text, note, check, evaluations, report.value, count)

(***************************************************************************)
(* What the backend may answer, per exercised operation                    *)
(***************************************************************************)

\* Answers to a ConsistencyCheckSchema call used where the adapter itself is
\* under study: two conforming ones, one with a score out of range, one with
\* a severity outside the enumeration.
AdapterPayloads ==
    {Check(Dimension(90, <<>>), Dimension(85, <<>>), Dimension(95, <<>>), 90),
     Check(Dimension(50, <<Issue("continuity", "critical", "")>>),
           Dimension(55, <<>>), Dimension(60, <<>>), 10),
     Check(Dimension(101, <<>>), Dimension(85, <<>>), Dimension(95, <<>>), 90),
     Check(Dimension(90, <<Issue("continuity", "blocker", "")>>),
           Dimension(85, <<>>), Dimension(95, <<>>), 90)}

\* Answers to checkConsistency's call: every combination of these dimension
\* scores, with and without an issue, with a low and a high overall_score of
\* the backend's own, and one answer whose overall_score is out of range.
CheckerScores == {0, 50, 55, 60, 75, 85, 90, 95, 100}

CheckerPayloads ==
    {Check(Dimension(c, i), Dimension(h, <<>>), Dimension(w, <<>>), o) :
        c \in CheckerScores, h \in CheckerScores, w \in CheckerScores,
        o \in {0, 100},
        i \in {<<>>, <<Issue("continuity", "high", "fix")>>}}
    \cup {Check(Dimension(90, <<>>), Dimension(85, <<>>), Dimension(95, <<>>), 101)}

\* A reader's answer as the backend may give it: it names the persona itself.
PersonaAnswer(type, satisfaction, reaction, suggestions) ==
    [persona_type |-> type,
     persona_name |-> "a reader",
     persona_description |-> "as the backend describes the reader",
     metrics |-> [satisfaction |-> satisfaction, engagement |-> 50, frustration |-> 50],
     likes |-> <<"like">>,
     dislikes |-> <<>>,
     suggestions |-> suggestions,
     overall_reaction |-> reaction,
     sample_comment |-> "comment"]

\* Answers to a persona call: one conforming answer per persona_type value
\* (the backend, not the caller, fills that field in), and one whose
\* satisfaction is out of range.
PersonaPayloads ==
    {PersonaAnswer("setting_obsessed", 90, "very_positive", <<>>),
     PersonaAnswer("romance_sub_focused", 40, "negative", <<"s1", "s2", "s3">>),
     PersonaAnswer("traditional_martial_arts_fan", 60, "positive", <<"s1">>),
     PersonaAnswer("setting_obsessed", 120, "positive", <<>>)}

Relationship(character, type) ==
    [character |-> character, type |-> type, description |-> "relationship"]

Character(name, role, relationships, speechPattern) ==
    [name |-> name, role |-> role, traits |-> <<"trait">>, goals |-> <<"goal">>,
     relationships |-> relationships, speech_pattern |-> speechPattern,
     taboo_actions |-> <<>>]

WorldRule(category, rule, importance, evidence) ==
    [category |-> category, rule |-> rule, importance |-> importance,
     evidence |-> evidence]

TimelineEvent(timestamp, event, involved, importance) ==
    [timestamp |-> timestamp, event |-> event, involved_characters |-> involved,
     importance |-> importance]

\* Character lists as the backend may extract them: one whose relationships
\* name a character that is not listed and whose protagonist has no speech
\* pattern, one whose protagonist has an empty one, and one with a role the
\* schema does not know.
CharacterLists ==
    {<<Character("Hero", "protagonist",
                 <<Relationship("Mentor", "mentor"), Relationship("Ghost", "enemy"),
                   Relationship("Hero", "other")>>,
                 UndefinedText),
       Character("Mentor", "supporting", <<Relationship("Hero", "friend")>>,
                 UndefinedText)>>,
     <<Character("Hero", "protagonist", <<>>, "")>>,
     <<Character("Hero", "hero", <<>>, "banmal")>>}

\* World rule lists: critical and high rules without evidence, a critical
\* rule with empty evidence next to one with evidence, and an unknown category.
WorldRuleLists ==
    {<<WorldRule("magic", "rule 1", "critical", UndefinedText),
       WorldRule("society", "rule 2", "high", UndefinedText)>>,
     <<WorldRule("culture", "rule 3", "critical", ""),
       WorldRule("physics", "rule 4", "critical", "chapter 1")>>,
     <<WorldRule("alchemy", "rule 5", "low", UndefinedText)>>}

\* Timelines: chapters 2, 10, 1 in that order; two events of one chapter
\* after a later chapter; and an unknown importance.
Timelines ==
    {<<TimelineEvent(<<Digit(2), Jang>>, "event a", <<"Hero">>, "high"),
       TimelineEvent(<<Digit(1), Digit(0), Jang>>, "event b", <<"Hero">>, "low"),
       TimelineEvent(<<Digit(1), Jang>>, "event c", <<"Mentor">>, "critical")>>,
     <<TimelineEvent(<<Digit(3), Jang>>, "event d", <<>>, "medium"),
       TimelineEvent(<<Digit(1), Jang>>, "event e", <<>>, "medium"),
       TimelineEvent(<<Digit(1), Jang>>, "event f", <<>>, "high")>>,
     <<TimelineEvent(<<Digit(1), Jang>>, "event g", <<>>, "urgent")>>}

\* Setting notes as the backend may answer generateSettingNote: the lists
\* above paired off, and an empty note.
SettingNotePayloads ==
    {[title |-> "A", genre |-> <<"muhyeop">>, characters |-> cs[1],
      world_rules |-> cs[2], timeline |-> cs[3], summary |-> "summary"] :
        cs \in {<<c, r, t>> \in CharacterLists \X WorldRuleLists \X Timelines :
                   \/ c[1].speech_pattern = UndefinedText
                        /\ r[1].rule = "rule 1" /\ t[1].event = "event a"
                   \/ c[1].speech_pattern = ""
                        /\ r[1].rule = "rule 3" /\ t[1].event = "event d"
                   \/ c[1].role = "hero"
                        /\ r[1].rule = "rule 1" /\ t[1].event = "event a"}}
    \cup {[title |-> "", genre |-> <<>>, characters |-> <<>>, world_rules |-> <<>>,
           timeline |-> <<>>, summary |-> ""]}

\* Answers to a SettingBuilder call: for the list-valued operations an array,
\* possibly empty, or the list wrapped in an object.
SettingPayloads(schema) ==
    CASE schema = "SettingNote" -> SettingNotePayloads
      [] schema = "Characters" ->
            {JsonArray(l) : l \in CharacterLists \cup {<<>>}}
                \cup {[characters |-> l] : l \in CharacterLists}
      [] schema = "WorldRules" ->
            {JsonArray(l) : l \in WorldRuleLists \cup {<<>>}}
                \cup {[world_rules |-> l] : l \in WorldRuleLists}
      [] schema = "Timeline" ->
            {JsonArray(l) : l \in Timelines \cup {<<>>}}
                \cup {[timeline |-> l] : l \in Timelines}
      [] OTHER -> {}

\* Issue lists of one dimension: none; one issue of each severity, the high
\* one without a suggested fix; four critical issues and a high one.
IssueLists(type) ==
    {<<>>,
     <<Issue(type, "critical", "fix 1"), Issue(type, "medium", "fix 2"),
       Issue(type, "high", UndefinedText), Issue(type, "low", "fix 4")>>,
     <<Issue(type, "critical", "fix 5"), Issue(type, "critical", "fix 6"),
       Issue(type, "high", "fix 7"), Issue(type, "critical", "fix 8"),
       Issue(type, "critical", "fix 9")>>}

ReportScores == {0, 60, 80, 100}

\* Further score triples: the totals just below the two verdict thresholds,
\* two whose weighted sum is a whole number and a half, and two with
\* fractions of a quarter and three quarters.
ReportTriples ==
    {<<59, 59, 59>>, <<79, 79, 79>>, <<0, 90, 0>>, <<26, 96, 62>>,
     <<90, 85, 95>>, <<50, 55, 60>>}

\* The checks handed to generateReport: what checkConsistency returns for
\* these scores, around the verdict thresholds, and these issue lists.
ReportChecks ==
    {CalculateWeightedScore(Check(Dimension(c, i[1]), Dimension(h, i[2]),
                                  Dimension(w, i[3]), 0)) :
        c \in ReportScores, h \in ReportScores, w \in ReportScores,
        i \in {l \in IssueLists("continuity") \X IssueLists("character")
                        \X IssueLists("world_rules") :
                    Len(l[1]) = Len(l[2]) /\ Len(l[2]) = Len(l[3])}}
    \cup {CalculateWeightedScore(Check(Dimension(t[1], i), Dimension(t[2], <<>>),
                                        Dimension(t[3], <<>>), 0)) :
            t \in ReportTriples, i \in IssueLists("continuity")}
    \cup {GetDefaultCheck}

\* The validated answers a slot may hold: those above, and a reader just
\* below the satisfaction floor with a single suggestion.
ReportPersonaAnswers ==
    {p \in PersonaPayloads : PersonaResultConforms(p)}
        \cup {PersonaAnswer("traditional_martial_arts_fan", 59, "neutral", <<"only">>)}

\* The persona lists handed to generateReport: the empty list of a request
\* that skips the personas, and what evaluateAllPersonas returns, every slot
\* a validated answer or the persona's fallback.
ReportPersonaLists ==
    {<<>>}
    \cup {<<a, b, c>> :
            a \in ReportPersonaAnswers \cup {GetDefaultPersonaResult(PersonaOrder[1])},
            b \in ReportPersonaAnswers \cup {GetDefaultPersonaResult(PersonaOrder[2])},
            c \in ReportPersonaAnswers \cup {GetDefaultPersonaResult(PersonaOrder[3])}}

\* Request bodies: texts one character short, of the least length and one
\* character long, naming Hong Gildong or not, with the personas skipped or not.
Requests ==
    [body : [text : [length : {MinTextLength - 1, MinTextLength, MaxTextLength + 1},
                     mentionsHongGildong : BOOLEAN],
             options : [skip_personas : BOOLEAN]],
     apiKey : BOOLEAN]

\* Within a request the backend answers each schema with one valid answer.
PipelinePayloads(schema) ==
    CASE schema = "SettingNote" ->
            {n \in SettingNotePayloads :
                Len(n.characters) = 2 /\ n.characters[1].role = "protagonist"}
      [] schema = "ConsistencyCheck" ->
            {Check(Dimension(90, <<Issue("continuity", "high", "fix")>>),
                   Dimension(85, <<>>), Dimension(95, <<>>), 0)}
      [] schema = "PersonaResult" ->
            {p \in PersonaPayloads : p.overall_reaction = "negative"}
      [] OTHER -> {}

\* The lists handed to the filters: issues of every severity in every order,
\* up to MaxListLength of them, told apart by their suggested fix, and the
\* action items made of them.
MaxListLength == 3

FilterIssueLists ==
    {[k \in 1..Len(sevs) |-> Issue("continuity", sevs[k],
                                <<"fix 1", "fix 2", "fix 3", "fix 4">>[k])] :
        sevs \in UNION {[1..n -> Severities] : n \in 0..MaxListLength}}

\* Answers to a single-dimension check: scores inside and outside 0..100,
\* with and without an issue, and one whose issue has an unknown severity.
DimensionPayloads ==
    {Dimension(score, issues) :
        score \in {-5, 0, 85, 100, 150},
        issues \in {<<>>, <<Issue("continuity", "high", "fix")>>}}
    \cup {Dimension(70, <<Issue("continuity", "urgent", "fix")>>)}

Payloads(c) ==
    CASE study = "adapter" -> AdapterPayloads
      [] study = "checker" -> CheckerPayloads
      [] study = "personas" -> PersonaPayloads
      [] study = "setting" -> SettingPayloads(calls[c].schema)
      [] study = "pipeline" -> PipelinePayloads(calls[c].schema)
      [] study = "dimension" -> DimensionPayloads
      [] OTHER -> {}

\* What the backend may do with the pending invocation of call c; within a
\* request it either fails with a timeout or answers validly.
Outcomes(c) ==
    IF study = "pipeline"
    THEN {[kind |-> "throw", message |-> "ETIMEDOUT"]}
            \cup [kind : {"text"}, fenced : {FALSE}, body : Payloads(c)]
    ELSE BackendOutcomes(Payloads(c))

(***************************************************************************)
(* The filters of ConsistencyChecker and AggregateReportGenerator          *)
(***************************************************************************)

SeverityOrder == <<"critical", "high", "medium", "low">>

\* Array.prototype.indexOf: the 0-based position, -1 when absent.
IndexOf(array, x) ==
    IF \E k \in 1..Len(array) : array[k] = x
    THEN (CHOOSE k \in 1..Len(array) :
              array[k] = x /\ \A j \in 1..(k - 1) : array[j] # x) - 1
    ELSE -1

\* The filter keeping what lies strictly above the threshold.
FilterIssuesBySeverityStrict(issues, minSeverity) ==
    LET minIndex == IndexOf(SeverityOrder, minSeverity)
    IN  SelectSeq(issues, LAMBDA issue : IndexOf(SeverityOrder, issue.severity) < minIndex)

\* filterIssuesBySeverity
FilterIssuesBySeverity(issues, minSeverity) ==
    LET minIndex == IndexOf(SeverityOrder, minSeverity)
    IN  SelectSeq(issues, LAMBDA issue : IndexOf(SeverityOrder, issue.severity) <= minIndex)

\* The filter losing the first element it keeps.
FilterActionItemsByPriorityTail(actionItems, minPriority) ==
    LET minIndex == IndexOf(SeverityOrder, minPriority)
        kept == SelectSeq(actionItems,
                    LAMBDA item : IndexOf(SeverityOrder, item.priority) <= minIndex)
    IN  IF kept = <<>> THEN <<>> ELSE Tail(kept)

\* filterActionItemsByPriority
FilterActionItemsByPriority(actionItems, minPriority) ==
    LET minIndex == IndexOf(SeverityOrder, minPriority)
    IN  SelectSeq(actionItems, LAMBDA item : IndexOf(SeverityOrder, item.priority) <= minIndex)

(***************************************************************************)
(* Actions                                                                 *)
(***************************************************************************)

Providers == {"gemini", "openai"}

MaxRetriesCfg == 6

CallIds == {"generate", "setting", "check"} \cup PersonaTypes

\* createLLMAdapter(config) and the LLMAdapter constructor.
CreateLLMAdapter(p, configured) ==
    /\ provider = p
    /\ maxRetries = ConstructorMaxRetries(configured)
    /\ calls = [c \in CallIds |-> IdleCall]

\* No filter has been called and the caller holds no list.
FiltersIdle ==
    /\ givenIssues = <<>>
    /\ givenActionItems = <<>>
    /\ filterCalls = <<>>
    /\ dimensionOutcome = [op \in DimensionOps |-> Undefined]

\* No stage has run.
StagesIdle ==
    /\ settingOutcome = [op \in SettingOps |-> Undefined]
    /\ checkOutcome = Undefined
    /\ slots = Undefined
    /\ personasOutcome = Undefined
    /\ reportOutcome = Undefined

\* No request is being handled.
PostIdle ==
    /\ request = Undefined
    /\ pc = "idle"
    /\ consistencyCheck = Undefined
    /\ personaEvaluations = <<>>
    /\ llmCallsCount = 0
    /\ response = Undefined

\* generateJSON is called for `schema`.
GenerateJSON(c, schema) ==
    /\ calls[c].pc = "idle"
    /\ calls' = [calls EXCEPT ![c] = BeginCall(schema)]
    /\ UNCHANGED <<configVars, standaloneVars, stageVars, postVars>>

\* The backend settles the pending invocation of call c.
BackendSettles(c) ==
    /\ calls[c].pc = "waiting"
    /\ \E outcome \in Outcomes(c) :
           calls' = [calls EXCEPT ![c] = Observe(AfterBackend(calls[c], outcome), outcome)]
    /\ UNCHANGED <<configVars, standaloneVars, stageVars, postVars>>

\* The backoff timer of call c fires: i++ and the loop goes round.
BackoffElapses(c) ==
    /\ calls[c].pc = "backoff"
    /\ calls' = [calls EXCEPT ![c] = LoopHead(calls[c], calls[c].i + 1)]
    /\ UNCHANGED <<configVars, standaloneVars, stageVars, postVars>>

\* No SettingBuilder operation is in flight.
SettingBuilderIdle ==
    \/ calls["setting"].pc = "idle"
    \/ /\ calls["setting"].pc = "done"
       /\ \E op \in SettingOps :
             SchemaOf[op] = calls["setting"].schema /\ settingOutcome[op] # Undefined

\* settingBuilder.generateSettingNote(text) is called.
GenerateSettingNote ==
    /\ pc = "idle"
    /\ SettingBuilderIdle
    /\ settingOutcome["generateSettingNote"] = Undefined
    /\ calls' = [calls EXCEPT !["setting"] = BeginCall(SchemaOf["generateSettingNote"])]
    /\ UNCHANGED <<configVars, standaloneVars, stageVars, postVars>>

\* generateSettingNote resumes after its await and returns or throws.
GenerateSettingNoteReturns ==
    /\ calls["setting"].pc = "done"
    /\ calls["setting"].schema = SchemaOf["generateSettingNote"]
    /\ settingOutcome["generateSettingNote"] = Undefined
    /\ settingOutcome' = [settingOutcome EXCEPT !["generateSettingNote"] =
                              GenerateSettingNoteResult(calls["setting"].result)]
    /\ UNCHANGED <<configVars, standaloneVars, calls, checkOutcome, slots, personasOutcome,
                   reportOutcome, postVars>>

\* settingBuilder.extractCharacters / extractWorldRules / extractTimeline is
\* called.
Extract(op) ==
    /\ pc = "idle"
    /\ SettingBuilderIdle
    /\ settingOutcome[op] = Undefined
    /\ calls' = [calls EXCEPT !["setting"] = BeginCall(SchemaOf[op])]
    /\ UNCHANGED <<configVars, standaloneVars, stageVars, postVars>>

\* The extract operation resumes after its await and returns.
ExtractReturns(op) ==
    /\ calls["setting"].pc = "done"
    /\ calls["setting"].schema = SchemaOf[op]
    /\ settingOutcome[op] = Undefined
    /\ settingOutcome' = [settingOutcome EXCEPT ![op] =
                              ExtractResult(calls["setting"].result)]
    /\ UNCHANGED <<configVars, standaloneVars, calls, checkOutcome, slots, personasOutcome,
                   reportOutcome, postVars>>

\* reportGenerator.generateReport(consistencyCheck, personaEvaluations) runs.
GenerateReportRuns ==
    /\ study = "report"
    /\ reportOutcome = Undefined
    /\ reportOutcome' = GenerateReport(consistencyCheck, personaEvaluations)
    /\ UNCHANGED <<configVars, standaloneVars, calls, settingOutcome, checkOutcome, slots,
                   personasOutcome, postVars>>

\* POST starting the consistency check beside the setting note instead of
\* after it.
PostStartsCheckEarly(req) ==
    /\ study = "pipeline"
    /\ pc = "idle"
    /\ request' = req
    /\ IF ~RequestConforms(req.body)
       THEN /\ response' = InvalidRequestResponse
            /\ pc' = "responded"
            /\ UNCHANGED calls
       ELSE IF ~req.apiKey
       THEN /\ response' = MissingKeyResponse
            /\ pc' = "responded"
            /\ UNCHANGED calls
       ELSE /\ calls' = [calls EXCEPT !["setting"] =
                            BeginCall(SchemaOf["generateSettingNote"]),
                                      !["check"] = BeginCall("ConsistencyCheck")]
            /\ pc' = "step1"
            /\ UNCHANGED response
    /\ UNCHANGED <<configVars, standaloneVars, stageVars, settingNote, consistencyCheck,
                   personaEvaluations, llmCallsCount>>

\* POST is called with a request: a 400 for a body outside the schema, a 500
\* without an API key; otherwise step 1 calls generateSettingNote.
Post(req) ==
    /\ study = "pipeline"
    /\ pc = "idle"
    /\ request' = req
    /\ IF ~RequestConforms(req.body)
       THEN /\ response' = InvalidRequestResponse
            /\ pc' = "responded"
            /\ UNCHANGED calls
       ELSE IF ~req.apiKey
       THEN /\ response' = MissingKeyResponse
            /\ pc' = "responded"
            /\ UNCHANGED calls
       ELSE /\ calls' = [calls EXCEPT !["setting"] =
                            BeginCall(SchemaOf["generateSettingNote"])]
            /\ pc' = "step1"
            /\ UNCHANGED response
    /\ UNCHANGED <<configVars, standaloneVars, stageVars, settingNote, consistencyCheck,
                   personaEvaluations, llmCallsCount>>

\* generateSettingNote has ended: its note and llmCallsCount++, or the
\* fallback note when it threw; then step 2 calls checkConsistency.
PostStep1Resumes ==
    /\ pc = "step1"
    /\ calls["setting"].pc = "done"
    /\ LET outcome == GenerateSettingNoteResult(calls["setting"].result) IN
       /\ settingOutcome' = [settingOutcome EXCEPT !["generateSettingNote"] = outcome]
       /\ IF outcome.kind = "return"
          THEN /\ settingNote' = outcome.value
               /\ llmCallsCount' = llmCallsCount + 1
          ELSE /\ settingNote' = GetDefaultSettingNote(request.body.text)
               /\ UNCHANGED llmCallsCount
    /\ calls' = [calls EXCEPT !["check"] = BeginCall("ConsistencyCheck")]
    /\ pc' = "step2"
    /\ UNCHANGED <<configVars, standaloneVars, checkOutcome, slots, personasOutcome, reportOutcome,
                   request, consistencyCheck, personaEvaluations, response>>

\* checkConsistency has ended: its check and llmCallsCount++, or the route's
\* default when it threw.  Then step 3: with skip_personas the list stays
\* empty and step 4 answers the request; otherwise evaluateAllPersonas is
\* called.
PostStep2Resumes ==
    /\ pc = "step2"
    /\ calls["check"].pc = "done"
    /\ LET outcome == CheckConsistencyResult(calls["check"].result)
           check == IF outcome.kind = "return" THEN outcome.value ELSE RouteDefaultCheck
           count == IF outcome.kind = "return" THEN llmCallsCount + 1 ELSE llmCallsCount
       IN  /\ checkOutcome' = outcome
           /\ consistencyCheck' = check
           /\ llmCallsCount' = count
           /\ IF request.body.options.skip_personas
              THEN /\ reportOutcome' = GenerateReport(check, <<>>)
                   /\ response' = Step4Response(request.body.text, settingNote, check,
                                                <<>>, count)
                   /\ pc' = "responded"
                   /\ UNCHANGED <<calls, slots, personasOutcome>>
              ELSE /\ calls' = [c \in CallIds |->
                                   IF c \in PersonaTypes THEN BeginCall("PersonaResult")
                                   ELSE calls[c]]
                   /\ slots' = SlotsOf(calls')
                   /\ personasOutcome' = PromiseAll(slots')
                   /\ pc' = "step3"
                   /\ UNCHANGED <<reportOutcome, response>>
    /\ UNCHANGED <<configVars, standaloneVars, settingOutcome, request, settingNote, personaEvaluations>>

\* evaluateAllPersonas has ended: its results and llmCallsCount += 3, or the
\* route's defaults when it threw; then step 4 answers the request.
PostStep3Resumes ==
    /\ pc = "step3"
    /\ personasOutcome # Undefined
    /\ LET evaluations == IF personasOutcome.kind = "return"
                          THEN personasOutcome.value ELSE RouteDefaultPersonas
           count == IF personasOutcome.kind = "return"
                    THEN llmCallsCount + 3 ELSE llmCallsCount
       IN  /\ personaEvaluations' = evaluations
           /\ llmCallsCount' = count
           /\ reportOutcome' = GenerateReport(consistencyCheck, evaluations)
           /\ response' = Step4Response(request.body.text, settingNote,
                                        consistencyCheck, evaluations, count)
    /\ pc' = "responded"
    /\ UNCHANGED <<configVars, standaloneVars, calls, settingOutcome, checkOutcome, slots,
                   personasOutcome, request, settingNote, consistencyCheck>>

\* consistencyChecker.checkConsistency(text, settingNote) is called.
CheckConsistency ==
    /\ pc = "idle"
    /\ calls["check"].pc = "idle"
    /\ calls' = [calls EXCEPT !["check"] = BeginCall("ConsistencyCheck")]
    /\ UNCHANGED <<configVars, standaloneVars, stageVars, postVars>>

\* checkConsistency resumes after its await and returns.
CheckConsistencyReturns ==
    /\ calls["check"].pc = "done"
    /\ calls["check"].schema = "ConsistencyCheck"
    /\ checkOutcome = Undefined
    /\ checkOutcome' = CheckConsistencyResult(calls["check"].result)
    /\ UNCHANGED <<configVars, standaloneVars, calls, settingOutcome, slots, personasOutcome,
                   reportOutcome, postVars>>

\* personaEvaluator.evaluateAllPersonas(text, settingNote) is called: the
\* three evaluateAs... calls run, in order, up to their first suspension.
EvaluateAllPersonas ==
    /\ pc = "idle"
    /\ slots = Undefined
    /\ calls' = [c \in CallIds |->
                    IF c \in PersonaTypes THEN BeginCall("PersonaResult") ELSE calls[c]]
    /\ slots' = SlotsOf(calls')
    /\ personasOutcome' = PromiseAll(slots')
    /\ UNCHANGED <<configVars, standaloneVars, settingOutcome, checkOutcome, reportOutcome, postVars>>

\* The backend settles the pending invocation of persona p's call; when that
\* ends the call, evaluateAs... returns, and with the last of the three
\* Promise.all resolves and evaluateAllPersonas returns.
PersonaBackendSettles(p) ==
    /\ slots # Undefined
    /\ calls[p].pc = "waiting"
    /\ \E outcome \in Outcomes(p) :
           calls' = [calls EXCEPT ![p] = Observe(AfterBackend(calls[p], outcome), outcome)]
    /\ slots' = SlotsOf(calls')
    /\ personasOutcome' = PromiseAll(slots')
    /\ UNCHANGED <<configVars, standaloneVars, settingOutcome, checkOutcome, reportOutcome, postVars>>

\* The backoff timer of persona p's call fires.
PersonaBackoffElapses(p) ==
    /\ slots # Undefined
    /\ calls[p].pc = "backoff"
    /\ calls' = [calls EXCEPT ![p] = LoopHead(calls[p], calls[p].i + 1)]
    /\ slots' = SlotsOf(calls')
    /\ personasOutcome' = PromiseAll(slots')
    /\ UNCHANGED <<configVars, standaloneVars, settingOutcome, checkOutcome, reportOutcome, postVars>>

\* consistencyChecker.checkContinuity / checkCharacterConsistency /
\* checkWorldRules (text, settingNote) is called, no other single-dimension
\* check being in flight.
CheckDimension(op) ==
    /\ study = "dimension"
    /\ \/ calls["check"].pc = "idle"
       \/ /\ calls["check"].pc = "done"
          /\ \E other \in DimensionOps :
                /\ DimensionSchemaOf[other] = calls["check"].schema
                /\ dimensionOutcome[other] # Undefined
    /\ dimensionOutcome[op] = Undefined
    /\ calls' = [calls EXCEPT !["check"] = BeginCall(DimensionSchemaOf[op])]
    /\ UNCHANGED <<configVars, standaloneVars, stageVars, postVars>>

\* The single-dimension check resumes after its await and returns.
CheckDimensionReturns(op) ==
    /\ calls["check"].pc = "done"
    /\ calls["check"].schema = DimensionSchemaOf[op]
    /\ dimensionOutcome[op] = Undefined
    /\ dimensionOutcome' = [dimensionOutcome EXCEPT ![op] =
                                CheckDimensionResult(calls["check"].result)]
    /\ UNCHANGED <<configVars, calls, stageVars, postVars, givenIssues,
                   givenActionItems, filterCalls>>

MaxFilterCalls == 2

\* What a caller may pass to a filter: the list it holds, or what the
\* previous call of the same filter returned.
FilterArguments(fn, given) ==
    {given} \cup (IF filterCalls # <<>> /\ filterCalls[Len(filterCalls)].fn = fn
                  THEN {filterCalls[Len(filterCalls)].value} ELSE {})

\* consistencyChecker.filterIssuesBySeverity(issues, minSeverity) is called.
CallFilterIssuesBySeverity(minSeverity) ==
    /\ study = "filter"
    /\ Len(filterCalls) < MaxFilterCalls
    /\ \E issues \in FilterArguments("filterIssuesBySeverity", givenIssues) :
           filterCalls' = Append(filterCalls,
               [fn |-> "filterIssuesBySeverity", threshold |-> minSeverity,
                argument |-> issues,
                value |-> FilterIssuesBySeverity(issues, minSeverity)])
    /\ UNCHANGED <<configVars, calls, stageVars, postVars, givenIssues, givenActionItems,
                   dimensionOutcome>>

\* reportGenerator.filterActionItemsByPriority(actionItems, minPriority) is
\* called.
CallFilterActionItemsByPriority(minPriority) ==
    /\ study = "filter"
    /\ Len(filterCalls) < MaxFilterCalls
    /\ \E actionItems \in FilterArguments("filterActionItemsByPriority", givenActionItems) :
           filterCalls' = Append(filterCalls,
               [fn |-> "filterActionItemsByPriority", threshold |-> minPriority,
                argument |-> actionItems,
                value |-> FilterActionItemsByPriority(actionItems, minPriority)])
    /\ UNCHANGED <<configVars, calls, stageVars, postVars, givenIssues, givenActionItems,
                   dimensionOutcome>>

(***************************************************************************)
(* Specifications                                                          *)
(***************************************************************************)

\* One generateJSON call, for either provider and any configured ceiling.
InitAdapter ==
    /\ FiltersIdle
    /\ study = "adapter"
    /\ \E p \in Providers, configured \in {<<>>} \cup {<<n>> : n \in 0..MaxRetriesCfg} :
           CreateLLMAdapter(p, configured)
    /\ StagesIdle
    /\ PostIdle
    /\ settingNote = Undefined

NextAdapter ==
    \/ GenerateJSON("generate", "ConsistencyCheck")
    \/ BackendSettles("generate")
    \/ BackoffElapses("generate")

SpecAdapter == InitAdapter /\ [][NextAdapter]_vars

\* One checkConsistency call on an adapter with the default ceiling.
InitChecker ==
    /\ FiltersIdle
    /\ study = "checker"
    /\ CreateLLMAdapter("gemini", <<>>)
    /\ StagesIdle
    /\ PostIdle
    /\ settingNote = Undefined

NextChecker ==
    \/ CheckConsistency
    \/ BackendSettles("check")
    \/ BackoffElapses("check")
    \/ CheckConsistencyReturns

SpecChecker == InitChecker /\ [][NextChecker]_vars

MaxRetriesPersonas == 2

\* One evaluateAllPersonas call on an adapter with a ceiling of 0..MaxRetriesPersonas.
InitPersonas ==
    /\ FiltersIdle
    /\ study = "personas"
    /\ \E n \in 0..MaxRetriesPersonas : CreateLLMAdapter("gemini", <<n>>)
    /\ StagesIdle
    /\ PostIdle
    /\ settingNote = Undefined

NextPersonas ==
    \/ EvaluateAllPersonas
    \/ \E p \in PersonaTypes : PersonaBackendSettles(p)
    \/ \E p \in PersonaTypes : PersonaBackoffElapses(p)

SpecPersonas == InitPersonas /\ [][NextPersonas]_vars

\* The four SettingBuilder operations, each called once, one after another in
\* any order, on an adapter with the default ceiling.
InitSetting ==
    /\ FiltersIdle
    /\ study = "setting"
    /\ CreateLLMAdapter("gemini", <<>>)
    /\ StagesIdle
    /\ PostIdle
    /\ settingNote = Undefined

NextSetting ==
    \/ GenerateSettingNote
    \/ GenerateSettingNoteReturns
    \/ \E op \in ExtractOps : Extract(op)
    \/ \E op \in ExtractOps : ExtractReturns(op)
    \/ BackendSettles("setting")
    \/ BackoffElapses("setting")

SpecSetting == InitSetting /\ [][NextSetting]_vars

\* One generateReport call on the results of the earlier stages.
InitReport ==
    /\ FiltersIdle
    /\ study = "report"
    /\ CreateLLMAdapter("gemini", <<>>)
    /\ StagesIdle
    /\ request = Undefined
    /\ pc = "idle"
    /\ settingNote = Undefined
    /\ consistencyCheck \in ReportChecks
    /\ personaEvaluations \in ReportPersonaLists
    /\ llmCallsCount = 0
    /\ response = Undefined

NextReport == GenerateReportRuns

SpecReport == InitReport /\ [][NextReport]_vars

\* One request to POST /api/analyze, on the adapter POST configures.
InitPipeline ==
    /\ FiltersIdle
    /\ study = "pipeline"
    /\ CreateLLMAdapter("gemini", <<RouteMaxRetries>>)
    /\ StagesIdle
    /\ PostIdle
    /\ settingNote = Undefined

NextPipeline ==
    \/ \E req \in Requests : Post(req)
    \/ PostStep1Resumes
    \/ PostStep2Resumes
    \/ PostStep3Resumes
    \/ \E c \in {"setting", "check"} : BackendSettles(c)
    \/ \E c \in {"setting", "check"} : BackoffElapses(c)
    \/ \E p \in PersonaTypes : PersonaBackendSettles(p)
    \/ \E p \in PersonaTypes : PersonaBackoffElapses(p)

SpecPipeline == InitPipeline /\ [][NextPipeline]_vars

\* The handler leaves step 2 once checkConsistency has ended, and step 3 once
\* evaluateAllPersonas has ended: the steps PostStep2Resumes and
\* PostStep3Resumes, seen by `pc` alone.
LeavesStep2 == pc = "step2" /\ calls["check"].pc = "done" /\ pc' \in {"step3", "responded"}

LeavesStep3 == pc = "step3" /\ personasOutcome # Undefined /\ pc' = "responded"

\* The same request where the event loop runs what is ready: continuations
\* resume, backoff timers fire, and every backend invocation returns or
\* throws.
SpecPipelineLive ==
    /\ InitPipeline /\ [][NextPipeline]_vars
    /\ WF_vars(PostStep1Resumes)
    /\ WF_pc(LeavesStep2)
    /\ WF_pc(LeavesStep3)
    /\ \A c \in {"setting", "check"} :
           WF_vars(BackendSettles(c)) /\ WF_vars(BackoffElapses(c))
    /\ \A p \in PersonaTypes :
           WF_vars(PersonaBackendSettles(p)) /\ WF_vars(PersonaBackoffElapses(p))

\* The two filters called on a list of issues and on the action items made of
\* it, at any thresholds, a result being filtered again or not.
InitFilter ==
    /\ study = "filter"
    /\ CreateLLMAdapter("gemini", <<>>)
    /\ StagesIdle
    /\ PostIdle
    /\ settingNote = Undefined
    /\ givenIssues \in FilterIssueLists
    /\ givenActionItems = [k \in 1..Len(givenIssues) |-> IssueToActionItem(givenIssues[k])]
    /\ filterCalls = <<>>
    /\ dimensionOutcome = [op \in DimensionOps |-> Undefined]

NextFilter ==
    \/ \E minSeverity \in Severities : CallFilterIssuesBySeverity(minSeverity)
    \/ \E minPriority \in Severities : CallFilterActionItemsByPriority(minPriority)

SpecFilter == InitFilter /\ [][NextFilter]_vars

\* The three single-dimension checks, each called once, one after another in
\* any order, on an adapter with the default ceiling.
InitDimension ==
    /\ study = "dimension"
    /\ CreateLLMAdapter("gemini", <<>>)
    /\ StagesIdle
    /\ PostIdle
    /\ settingNote = Undefined
    /\ FiltersIdle

NextDimension ==
    \/ \E op \in DimensionOps : CheckDimension(op)
    \/ \E op \in DimensionOps : CheckDimensionReturns(op)
    \/ BackendSettles("check")
    \/ BackoffElapses("check")

SpecDimension == InitDimension /\ [][NextDimension]_vars

(***************************************************************************)
(* Properties of one generateJSON call (SpecAdapter)                       *)
(***************************************************************************)

G == calls["generate"]

\* C2: generateJSON ends with a result and never with an exception: a result
\* with success=true carries data; when every attempt failed the result is
\* success=false, carries an error message and no data, and the message is the
\* one raised by the final attempt.
C2_GenerateJSONNeverThrows ==
    G.pc = "done" =>
        /\ G.result # Undefined
        /\ G.result.success \in BOOLEAN
        /\ G.result.success => G.result.data # Undefined
        /\ G.okAt = 0 => ~G.result.success
        /\ ~G.result.success =>
               /\ G.result.data = Undefined
               /\ G.result.error # UndefinedText
               /\ G.invocations > 0 => G.result.error = G.lastError

C2_Witness ==
    /\ G.pc = "done"
    /\ ~G.result.success
    /\ G.invocations = 3
    /\ G.transportFailures = 2
    /\ G.lastError = InvalidJsonMessage

\* C3: one generateJSON call invokes the backend at most maxRetries times,
\* exactly maxRetries times when every attempt fails, and never again after
\* the first attempt that yields a schema-valid response.
C3_InvocationBudget ==
    /\ G.invocations <= maxRetries
    /\ (G.pc = "done" /\ G.okAt = 0) => G.invocations = maxRetries
    /\ G.okAt # 0 => (G.pc = "done" /\ G.invocations = G.okAt)

C3_Witness ==
    /\ maxRetries = DefaultMaxRetries
    /\ G.pc = "done"
    /\ G.okAt = 2
    /\ G.invocations = 2

\* C4: success=true is returned only with data the validator accepted on the
\* attempt that ended the call; an unparseable or non-conforming answer uses
\* up one attempt of the retry loop exactly as a transport exception does, and
\* is never returned as data.
C4_OnlyValidatedData ==
    /\ (G.pc = "done" /\ G.result.success) =>
           /\ G.okAt = G.invocations
           /\ G.result.data \in AdapterPayloads
           /\ ConsistencyCheckConforms(G.result.data)
    /\ G.pc = "waiting" => G.transportFailures + G.validationFailures = G.i
    /\ G.pc = "backoff" =>
           /\ G.transportFailures + G.validationFailures = G.i + 1
           /\ Len(G.delays) = G.i + 1
    /\ (G.pc = "done" /\ ~G.result.success) =>
           G.transportFailures + G.validationFailures = maxRetries

C4_Witness ==
    /\ G.pc = "done"
    /\ G.result.success
    /\ G.validationFailures = 2
    /\ G.transportFailures = 0

\* The wait after the k-th failed attempt (k counted from 1).
ExpectedDelay(k) ==
    CASE k = 1 -> 1000
      [] k = 2 -> 2000
      [] k = 3 -> 4000
      [] k = 4 -> 8000
      [] OTHER -> 10000

FailedAttempts == G.transportFailures + G.validationFailures

\* C24: after the failed attempt of 0-based index i that is not the last one
\* the wait before the next attempt is min(1000 * 2^i, 10000) ms (1000, 2000,
\* 4000, 8000, then 10000 from the fifth failure on); the delays never
\* decrease and never exceed 10000 ms, and there is no wait after the final
\* failed attempt or after a success.
C24_BackoffDelays ==
    /\ \A k \in 1..Len(G.delays) :
           /\ G.delays[k] = ExpectedDelay(k)
           /\ G.delays[k] <= 10000
           /\ k > 1 => G.delays[k - 1] <= G.delays[k]
    /\ G.pc \in {"waiting", "backoff"} => Len(G.delays) = FailedAttempts
    /\ (G.pc = "done" /\ G.okAt # 0) => Len(G.delays) = G.okAt - 1
    /\ (G.pc = "done" /\ G.okAt = 0) =>
           /\ FailedAttempts = maxRetries
           /\ Len(G.delays) = (IF maxRetries = 0 THEN 0 ELSE maxRetries - 1)

\* Six attempts failed: the call waited 1000, 2000, 4000, 8000 and 10000 ms
\* between them and not after the sixth.
C24_Witness ==
    /\ maxRetries = 6
    /\ G.pc = "done"
    /\ G.okAt = 0
    /\ G.delays = <<1000, 2000, 4000, 8000, 10000>>

\* The third attempt succeeded after two waits.
NoWaitAfterSuccess ==
    /\ G.pc = "done"
    /\ G.okAt = 3
    /\ G.delays = <<1000, 2000>>

(***************************************************************************)
(* Properties of checkConsistency (SpecChecker)                            *)
(***************************************************************************)

K == calls["check"]

\* C7: checkConsistency never ends with an exception, and when the adapter's
\* result has success=false or no data it returns the fixed default: the
\* three dimension scores 75, no issues in any dimension, overall_score 75.
C7_DefaultCheckOnFailure ==
    checkOutcome # Undefined =>
        /\ checkOutcome.kind = "return"
        /\ (~K.result.success \/ K.result.data = Undefined) =>
               checkOutcome.value =
                   [continuity |-> [score |-> 75, issues |-> <<>>],
                    character |-> [score |-> 75, issues |-> <<>>],
                    world_rules |-> [score |-> 75, issues |-> <<>>],
                    overall_score |-> 75]

C7_Witness ==
    /\ checkOutcome # Undefined
    /\ ~K.result.success
    /\ K.invocations = 3

\* round(0.40 c + 0.35 h + 0.25 w) for integers, one half going up.
WeightedAverageRounded(c, h, w) == (40 * c + 35 * h + 25 * w + 50) \div 100

\* C8: every ConsistencyCheck that checkConsistency returns has overall_score
\* = round(0.40 continuity + 0.35 character + 0.25 world_rules) of the scores
\* it returns; on the success path the dimensions are the backend's, and the
\* backend's own overall_score has no part in the result.
C8_OverallScoreIsWeightedAverage ==
    checkOutcome # Undefined =>
        /\ checkOutcome.value.overall_score =
               WeightedAverageRounded(checkOutcome.value.continuity.score,
                                      checkOutcome.value.character.score,
                                      checkOutcome.value.world_rules.score)
        /\ K.result.success =>
               /\ checkOutcome.value.continuity = K.result.data.continuity
               /\ checkOutcome.value.character = K.result.data.character
               /\ checkOutcome.value.world_rules = K.result.data.world_rules

\* The parts of C8 that do not rest on the arithmetic: the dimensions are
\* returned as the backend gave them.
DimensionsReturnedAsGiven ==
    (checkOutcome # Undefined /\ K.result.success) =>
        /\ checkOutcome.value.continuity = K.result.data.continuity
        /\ checkOutcome.value.character = K.result.data.character
        /\ checkOutcome.value.world_rules = K.result.data.world_rules

(***************************************************************************)
(* Properties of evaluateAllPersonas (SpecPersonas)                        *)
(***************************************************************************)

\* The persona whose call the backend never answered validly.
Failed(p) == calls[p].pc = "done" /\ calls[p].okAt = 0

\* C5: evaluateAllPersonas never ends with an exception and resolves, once the
\* three calls have ended, with exactly three results: the slot of a failed
\* call holds the neutral fallback of that persona (70 / 70 / 30, neutral, the
\* persona's configured type and name), the slot of a call that succeeded
\* holds the backend's validated data unchanged.
C5_ThreeResultsWithFallbacks ==
    /\ (\A p \in PersonaTypes : calls[p].pc = "done") => personasOutcome # Undefined
    /\ personasOutcome # Undefined =>
        /\ personasOutcome.kind = "return"
        /\ Len(personasOutcome.value) = 3
        /\ \A k \in 1..3 :
             LET p == PersonaOrder[k]
                 r == personasOutcome.value[k]
             IN  /\ Failed(p) =>
                       /\ r.persona_type = p
                       /\ r.persona_name = Personas[p].name
                       /\ r.metrics = [satisfaction |-> 70, engagement |-> 70,
                                       frustration |-> 30]
                       /\ r.overall_reaction = "neutral"
                 /\ ~Failed(p) =>
                       /\ r = calls[p].result.data
                       /\ r \in PersonaPayloads
                       /\ PersonaResultConforms(r)

\* Resolved with the first and the last call failed after two attempts and
\* the middle one succeeded.
C5_Witness ==
    /\ personasOutcome # Undefined
    /\ Failed("setting_obsessed")
    /\ ~Failed("romance_sub_focused")
    /\ Failed("traditional_martial_arts_fan")
    /\ maxRetries = 2

\* C6: in every array evaluateAllPersonas returns, the results at index 0, 1
\* and 2 have persona_type setting_obsessed, romance_sub_focused and
\* traditional_martial_arts_fan, whatever the backend returned.
C6_SlotsCarryTheirPersonaType ==
    personasOutcome # Undefined =>
        \A k \in 1..3 : personasOutcome.value[k].persona_type = PersonaOrder[k]

\* The attempts of persona p's call that failed.
FailedAttemptsOf(p) == calls[p].transportFailures + calls[p].validationFailures

\* C28: during evaluateAllPersonas the three generation calls share one
\* adapter but each has its own attempt counter: under every interleaving the
\* failed attempts of one persona take nothing from the attempts of another,
\* each persona gets up to maxRetries attempts and stops at its own first
\* success, and the backend is invoked at most 3 * maxRetries times in all.
C28_PersonaCallsRetryIndependently ==
    slots # Undefined =>
        /\ \A p \in PersonaTypes :
               /\ calls[p].invocations <= maxRetries
               /\ calls[p].pc = "waiting" =>
                      /\ calls[p].i = FailedAttemptsOf(p)
                      /\ calls[p].invocations = FailedAttemptsOf(p) + 1
               /\ calls[p].pc = "backoff" =>
                      /\ FailedAttemptsOf(p) < maxRetries
                      /\ calls[p].invocations = FailedAttemptsOf(p)
               /\ (calls[p].pc = "done" /\ calls[p].okAt = 0) =>
                      /\ calls[p].invocations = maxRetries
                      /\ FailedAttemptsOf(p) = maxRetries
               /\ calls[p].okAt # 0 =>
                      /\ calls[p].pc = "done"
                      /\ calls[p].invocations = calls[p].okAt
                      /\ FailedAttemptsOf(p) = calls[p].okAt - 1
        /\ calls["setting_obsessed"].invocations
             + calls["romance_sub_focused"].invocations
             + calls["traditional_martial_arts_fan"].invocations <= 3 * maxRetries

\* The first persona's two attempts failed, the second persona's first
\* attempt succeeded, and the third persona's second attempt succeeded.
C28_Witness ==
    /\ maxRetries = 2
    /\ personasOutcome # Undefined
    /\ calls["setting_obsessed"].okAt = 0
    /\ calls["setting_obsessed"].invocations = 2
    /\ calls["romance_sub_focused"].okAt = 1
    /\ calls["traditional_martial_arts_fan"].okAt = 2

\* One persona's call has used up its attempts while another's first
\* invocation is still pending.
OneExhaustedWhileAnotherPending ==
    /\ maxRetries = 2
    /\ calls["setting_obsessed"].pc = "done"
    /\ calls["setting_obsessed"].okAt = 0
    /\ calls["traditional_martial_arts_fan"].pc = "waiting"
    /\ calls["traditional_martial_arts_fan"].invocations = 1

(***************************************************************************)
(* Properties of the SettingBuilder operations (SpecSetting)               *)
(***************************************************************************)

S == calls["setting"]

\* The operation `op` has just ended and its generateJSON call had failed.
EndedOnFailure(op) ==
    /\ S.pc = "done"
    /\ S.schema = SchemaOf[op]
    /\ S.okAt = 0
    /\ settingOutcome[op] # Undefined

\* C9: generateSettingNote raises an error when its generateJSON call fails;
\* extractCharacters, extractWorldRules and extractTimeline return an empty
\* collection on failure and never raise.
C9_SettingBuilderFailureModes ==
    /\ EndedOnFailure("generateSettingNote") =>
           /\ settingOutcome["generateSettingNote"].kind = "throw"
           /\ settingOutcome["generateSettingNote"].message =
                  <<"Failed to generate setting note: ", S.lastError>>
    /\ \A op \in {"extractCharacters", "extractWorldRules", "extractTimeline"} :
           /\ settingOutcome[op] # Undefined => settingOutcome[op].kind = "return"
           /\ EndedOnFailure(op) => settingOutcome[op] = Returned(<<>>)

\* generateSettingNote has raised, extractCharacters and extractWorldRules
\* have returned nothing, and extractTimeline has just returned from a call
\* whose three attempts failed.
C9_Witness ==
    /\ settingOutcome["generateSettingNote"] # Undefined
    /\ settingOutcome["generateSettingNote"].kind = "throw"
    /\ settingOutcome["extractCharacters"] = Returned(<<>>)
    /\ settingOutcome["extractWorldRules"] = Returned(<<>>)
    /\ EndedOnFailure("extractTimeline")
    /\ S.invocations = 3

\* generateSettingNote has returned a note.
NoteReturned ==
    /\ settingOutcome["generateSettingNote"] # Undefined
    /\ settingOutcome["generateSettingNote"].kind = "return"

Note == settingOutcome["generateSettingNote"].value

\* generateSettingNote has just returned: the adapter still holds the note
\* the backend answered.
NoteJustReturned ==
    /\ NoteReturned
    /\ S.pc = "done"
    /\ S.schema = SchemaOf["generateSettingNote"]

Extracted == S.result.data

NamesOf(characters) == {characters[k].name : k \in 1..Len(characters)}

\* The relationships left when those naming nobody of `names` are taken out,
\* in their order.
RECURSIVE Pruned(_, _)
Pruned(relationships, names) ==
    IF relationships = <<>> THEN <<>>
    ELSE IF Head(relationships).character \in names
         THEN <<Head(relationships)>> \o Pruned(Tail(relationships), names)
         ELSE Pruned(Tail(relationships), names)

\* C18: in every note generateSettingNote returns, each relationship of each
\* character names a character of the note's characters list; the
\* post-processing removes exactly the relationships whose name is absent and
\* keeps every other one, in its original order.
C18_RelationshipsNameListedCharacters ==
    /\ NoteReturned =>
           \A k \in 1..Len(Note.characters) :
               \A r \in 1..Len(Note.characters[k].relationships) :
                   Note.characters[k].relationships[r].character
                       \in NamesOf(Note.characters)
    /\ NoteJustReturned =>
           /\ Len(Note.characters) = Len(Extracted.characters)
           /\ \A k \in 1..Len(Note.characters) :
                  /\ Note.characters[k].name = Extracted.characters[k].name
                  /\ Note.characters[k].relationships =
                         Pruned(Extracted.characters[k].relationships,
                                NamesOf(Extracted.characters))

\* The note returned had a relationship to an unlisted character between two
\* relationships to listed ones: the two are kept, in their order.
C18_Witness ==
    /\ NoteJustReturned
    /\ Len(Extracted.characters) = 2
    /\ Len(Extracted.characters[1].relationships) = 3
    /\ Extracted.characters[1].relationships[2].character = "Ghost"
    /\ Len(Note.characters[1].relationships) = 2
    /\ Note.characters[1].relationships[1].character = "Mentor"
    /\ Note.characters[1].relationships[2].character = "Hero"

\* C19: in a returned note every critical world rule has non-empty evidence
\* (a missing or empty one is replaced by the placeholder) and every
\* protagonist has a non-empty speech pattern; rules that are not critical or
\* carry evidence, and characters that are not protagonists or have a speech
\* pattern, keep those fields unchanged.
C19_CriticalEvidenceAndProtagonistSpeech ==
    /\ NoteReturned =>
           /\ \A k \in 1..Len(Note.world_rules) :
                  Note.world_rules[k].importance = "critical" =>
                      Note.world_rules[k].evidence \notin {UndefinedText, ""}
           /\ \A k \in 1..Len(Note.characters) :
                  Note.characters[k].role = "protagonist" =>
                      Note.characters[k].speech_pattern \notin {UndefinedText, ""}
    /\ NoteJustReturned =>
           /\ Len(Note.world_rules) = Len(Extracted.world_rules)
           /\ \A k \in 1..Len(Note.world_rules) :
                  LET rule == Extracted.world_rules[k]
                  IN  Note.world_rules[k] =
                          IF rule.importance = "critical"
                               /\ rule.evidence \in {UndefinedText, ""}
                          THEN [rule EXCEPT !.evidence = DefaultEvidence]
                          ELSE rule
           /\ \A k \in 1..Len(Note.characters) :
                  LET character == Extracted.characters[k]
                  IN  Note.characters[k].speech_pattern =
                          IF character.role = "protagonist"
                               /\ character.speech_pattern \in {UndefinedText, ""}
                          THEN DefaultSpeechPattern
                          ELSE character.speech_pattern

\* The note returned had a critical rule with empty evidence next to a
\* critical rule with evidence, and a protagonist with an empty speech
\* pattern: the first rule and the protagonist got the placeholders, the
\* second rule kept its evidence.
C19_Witness ==
    /\ NoteJustReturned
    /\ Len(Extracted.world_rules) = 2
    /\ Extracted.world_rules[1].importance = "critical"
    /\ Extracted.world_rules[1].evidence = ""
    /\ Note.world_rules[1].evidence = DefaultEvidence
    /\ Note.world_rules[2].evidence = "chapter 1"
    /\ Extracted.characters[1].speech_pattern = ""
    /\ Note.characters[1].speech_pattern = DefaultSpeechPattern

\* A note whose high rule and supporting character lacked the fields keeps
\* them lacking.
OptionalFieldsLeftMissing ==
    /\ NoteJustReturned
    /\ Len(Note.world_rules) = 2
    /\ Note.world_rules[1].evidence = DefaultEvidence
    /\ Note.world_rules[2].importance = "high"
    /\ Note.world_rules[2].evidence = UndefinedText
    /\ Len(Note.characters) = 2
    /\ Note.characters[2].speech_pattern = UndefinedText

\* The events of `timeline` carrying the timestamp, in their order.
EventsAt(timeline, timestamp) ==
    SelectSeq(timeline, LAMBDA e : e.timestamp = timestamp)

TimelineInTextOrder ==
    /\ NoteJustReturned
    /\ Extracted.timeline[1].event = "event a"
    /\ Note.timeline[1].event = "event b"
    /\ Note.timeline[2].event = "event c"
    /\ Note.timeline[3].event = "event a"

\* The single-dimension check `op` has just returned.
DimensionJustReturned(op) ==
    /\ dimensionOutcome[op] # Undefined
    /\ K.pc = "done"
    /\ K.schema = DimensionSchemaOf[op]

\* C30: each single-dimension check never raises and returns a score in
\* 0..100 for every adapter outcome: the backend's validated score on
\* success, and {score: 85, issues: []} when the adapter's result carries no
\* data.
C30_DimensionChecksReturnScoreInRange ==
    \A op \in DimensionOps :
        /\ dimensionOutcome[op] # Undefined =>
               /\ dimensionOutcome[op].kind = "return"
               /\ dimensionOutcome[op].value.score \in 0..100
        /\ DimensionJustReturned(op) =>
               dimensionOutcome[op].value =
                   IF K.result.success THEN K.result.data ELSE Dimension(85, <<>>)

\* The part of C30 that holds: the checks never raise, return what the
\* validator accepted on success and the default otherwise; the score is the
\* default's 85 or whatever number the backend wrote.
DimensionChecksNeverRaise ==
    \A op \in DimensionOps :
        /\ dimensionOutcome[op] # Undefined => dimensionOutcome[op].kind = "return"
        /\ DimensionJustReturned(op) =>
               /\ dimensionOutcome[op].value =
                      IF K.result.success THEN K.result.data ELSE Dimension(85, <<>>)
               /\ K.okAt = 0 => dimensionOutcome[op].value.score = 85
               /\ dimensionOutcome[op].value \in DimensionPayloads \cup {Dimension(85, <<>>)}
               /\ DimensionCheckConforms(dimensionOutcome[op].value)

(***************************************************************************)
(* Properties of generateReport (SpecReport)                               *)
(***************************************************************************)

ReportFields ==
    {"verdict", "confidence_score", "weighted_scores", "action_items",
     "executive_summary", "recommendation"}

\* C1: generateReport has no error outcome: for every check with scores in
\* 0..100 and every persona list the orchestrator passes (three results, or
\* none when the personas are skipped) it returns a report with a verdict, a
\* confidence score, weighted scores, action items, a summary and a
\* recommendation.
C1_GenerateReportAlwaysReturns ==
    reportOutcome # Undefined =>
        /\ reportOutcome.kind = "return"
        /\ DOMAIN reportOutcome.value = ReportFields

\* The part of C1 that holds: with three persona results generateReport
\* returns a complete report.
ReportReturnsForThreePersonas ==
    (reportOutcome # Undefined /\ Len(personaEvaluations) = 3) =>
        /\ reportOutcome.kind = "return"
        /\ DOMAIN reportOutcome.value = ReportFields

\* The report generateReport returned.
Report == reportOutcome.value

ReportReturned == reportOutcome # Undefined /\ reportOutcome.kind = "return"

\* C11: weighted_scores carries the rounded dimension scores, and its total is
\* round(0.40 * continuity + 0.35 * character + 0.25 * world_rules) of those
\* rounded values (90/85/95 gives 90, 50/55/60 gives 54) and lies in 0..100.
C11_WeightedScoresTotal ==
    ReportReturned =>
        LET c == consistencyCheck.continuity.score
            h == consistencyCheck.character.score
            w == consistencyCheck.world_rules.score
        IN  /\ Report.weighted_scores.continuity = c
            /\ Report.weighted_scores.character = h
            /\ Report.weighted_scores.world_rules = w
            /\ Report.weighted_scores.total = WeightedAverageRounded(c, h, w)
            /\ Report.weighted_scores.total \in 0..100

\* The part of C11 that holds: the dimension scores are carried over, the
\* total lies in 0..100 and is the rounded weighted average wherever the
\* weighted sum is not a whole number and a half.
WeightedScoresOffTheHalves ==
    ReportReturned =>
        LET c == consistencyCheck.continuity.score
            h == consistencyCheck.character.score
            w == consistencyCheck.world_rules.score
        IN  /\ Report.weighted_scores.continuity = c
            /\ Report.weighted_scores.character = h
            /\ Report.weighted_scores.world_rules = w
            /\ Report.weighted_scores.total \in 0..100
            /\ (40 * c + 35 * h + 25 * w) % 100 # 50 =>
                  Report.weighted_scores.total = WeightedAverageRounded(c, h, w)

\* C12: the verdict is a function of weighted_scores.total alone: PASS when
\* total >= 80, REVISE when 60 <= total < 80, BLOCK when total < 60; issues,
\* persona results and the confidence score never change it.
C12_VerdictFromTotalAlone ==
    ReportReturned =>
        LET total == Report.weighted_scores.total IN
        /\ Report.verdict = "PASS" <=> total >= 80
        /\ Report.verdict = "REVISE" <=> (total >= 60 /\ total < 80)
        /\ Report.verdict = "BLOCK" <=> total < 60

\* A total of exactly 80 passes although the check lists critical issues, no
\* persona reacts positively and the confidence is below 60.
C12_Witness ==
    /\ ReportReturned
    /\ Report.weighted_scores.total = 80
    /\ Report.verdict = "PASS"
    /\ Report.confidence_score < 60
    /\ \E k \in 1..Len(Report.action_items) : Report.action_items[k].priority = "critical"
    /\ \A k \in 1..3 : personaEvaluations[k].overall_reaction = "negative"

\* What identifies an action item: its priority, the area it affects and its
\* description.
ItemKey(item) == <<item.priority, item.affected_area, item.description>>

\* The candidates the critical and high issues of one dimension give rise to,
\* in the order of the issues.
IssueCandidates(dimension) ==
    LET severe == SelectSeq(dimension.issues,
                            LAMBDA i : i.severity = "critical" \/ i.severity = "high")
    IN  [k \in 1..Len(severe) |->
            <<severe[k].severity, severe[k].type,
              IF severe[k].suggested_fix \in {UndefinedText, ""}
              THEN severe[k].description ELSE severe[k].suggested_fix>>]

\* The candidates one persona gives rise to: none at a satisfaction of 60 or
\* more, otherwise one for each of its first two suggestions.
PersonaCandidates(persona) ==
    IF persona.metrics.satisfaction >= 60 THEN <<>>
    ELSE [k \in 1..(IF Len(persona.suggestions) < 2 THEN Len(persona.suggestions) ELSE 2) |->
            <<"high", "reader_satisfaction",
              <<"[", persona.persona_name, "] ", persona.suggestions[k]>>>>]

\* All candidates in insertion order: the issues of continuity, of character
\* and of world_rules, then the suggestions of the personas in persona order.
Candidates ==
    IssueCandidates(consistencyCheck.continuity)
        \o IssueCandidates(consistencyCheck.character)
        \o IssueCandidates(consistencyCheck.world_rules)
        \o PersonaCandidates(personaEvaluations[1])
        \o PersonaCandidates(personaEvaluations[2])
        \o PersonaCandidates(personaEvaluations[3])

\* The keys of the report's action items.
ItemKeys == [k \in 1..Len(Report.action_items) |-> ItemKey(Report.action_items[k])]

Rank(priority) ==
    CASE priority = "critical" -> 1
      [] priority = "high" -> 2
      [] priority = "medium" -> 3
      [] priority = "low" -> 4

IsPrefix(s, t) == Len(s) <= Len(t) /\ s = SubSeq(t, 1, Len(s))

\* C13: action_items has at most 10 entries and is ordered non-increasing in
\* priority under critical > high > medium > low, the items of one priority
\* in insertion order (issues of continuity, then character, then
\* world_rules, then persona suggestions in persona order).
C13_ActionItemsSortedAndCapped ==
    ReportReturned =>
        /\ Len(Report.action_items) <= 10
        /\ \A i, j \in 1..Len(Report.action_items) :
              i < j => Rank(Report.action_items[i].priority)
                          <= Rank(Report.action_items[j].priority)
        /\ \A priority \in {"critical", "high", "medium", "low"} :
              IsPrefix(SelectSeq(ItemKeys, LAMBDA key : key[1] = priority),
                       SelectSeq(Candidates, LAMBDA key : key[1] = priority))

\* Twelve candidates pushed out of priority order (critical, high, critical,
\* ...) and cut to ten: three critical issues, three high issues and four
\* persona suggestions.
C13_Witness ==
    /\ ReportReturned
    /\ Len(Candidates) = 12
    /\ Candidates[1][1] = "critical" /\ Candidates[2][1] = "high"
    /\ Candidates[3][1] = "critical"
    /\ Len(Report.action_items) = 10
    /\ Report.action_items[3].priority = "critical"
    /\ Report.action_items[4].priority = "high"
    /\ Report.action_items[10].affected_area = "reader_satisfaction"

\* The issues of the three dimensions, continuity first.
CheckIssues ==
    consistencyCheck.continuity.issues \o consistencyCheck.character.issues
        \o consistencyCheck.world_rules.issues

\* Some action item represents the issue: priority equal to the severity,
\* type fix_required, the issue type as affected area, and the effort of the
\* severity.
Represented(issue) ==
    \E k \in 1..Len(Report.action_items) :
        LET item == Report.action_items[k] IN
        /\ item.priority = issue.severity
        /\ item.type = "fix_required"
        /\ item.affected_area = issue.type
        /\ item.estimated_effort =
              (IF issue.severity = "critical" THEN "significant" ELSE "moderate")

\* The action items that stem from issues.
IssueItems ==
    SelectSeq(Report.action_items,
              LAMBDA item : item.affected_area \in {"continuity", "character", "world_rules"})

\* Issues of severity medium or low never produce an action item: every item
\* that stems from an issue is critical or high, and there are no more of
\* them for a severity and issue type than there are such issues.
NoItemFromMinorIssues ==
    /\ \A k \in 1..Len(IssueItems) : IssueItems[k].priority \in {"critical", "high"}
    /\ \A severity \in {"critical", "high"}, type \in {"continuity", "character", "world_rules"} :
          Len(SelectSeq(IssueItems,
                        LAMBDA item : item.priority = severity /\ item.affected_area = type))
            <= Len(SelectSeq(CheckIssues,
                             LAMBDA i : i.severity = severity /\ i.type = type))

\* C14 as stated: whatever the number of issues, every critical or high issue
\* of the three dimensions is represented in action_items by an item with
\* priority equal to its severity, type fix_required, affected_area equal to
\* the issue type and estimated_effort significant (critical) or moderate
\* (high); medium and low issues never produce an action item.
C14_EverySevereIssueRepresented ==
    ReportReturned =>
        /\ \A k \in 1..Len(CheckIssues) :
              CheckIssues[k].severity \in {"critical", "high"} => Represented(CheckIssues[k])
        /\ NoItemFromMinorIssues

\* The item a critical or high issue is turned into.
ExpectedItem(issue) ==
    [priority |-> issue.severity,
     type |-> "fix_required",
     description |-> IF issue.suggested_fix \in {UndefinedText, ""}
                     THEN issue.description ELSE issue.suggested_fix,
     affected_area |-> issue.type,
     estimated_effort |-> IF issue.severity = "critical" THEN "significant" ELSE "moderate"]

\* The critical issues in order, then the high ones in order, as items.
ExpectedIssueItems ==
    LET ranked == SelectSeq(CheckIssues, LAMBDA i : i.severity = "critical")
                    \o SelectSeq(CheckIssues, LAMBDA i : i.severity = "high")
    IN  [k \in 1..Len(ranked) |-> ExpectedItem(ranked[k])]

\* C14 amended: the critical and high issues, the critical ones first and
\* each severity in the order continuity, character, world_rules, are turned
\* one by one into items with priority equal to the severity, type
\* fix_required, affected_area equal to the issue type and estimated_effort
\* significant (critical) or moderate (high), up to the tenth; an eleventh or
\* later one is dropped.  Medium and low issues never produce an action item.
C14_FirstTenSevereIssuesRepresented ==
    ReportReturned =>
        /\ IssueItems = SubSeq(ExpectedIssueItems, 1,
                               IF Len(ExpectedIssueItems) < 10
                               THEN Len(ExpectedIssueItems) ELSE 10)
        /\ NoItemFromMinorIssues

\* Four issues in every dimension, one of each severity: the three critical
\* and the three high ones are all represented, the high ones by their
\* description for want of a suggested fix, the medium and low ones by nothing.
C14_Witness ==
    /\ ReportReturned
    /\ Len(CheckIssues) = 12
    /\ \E k \in 1..12 : CheckIssues[k].severity = "medium"
    /\ \E k \in 1..12 : CheckIssues[k].severity = "low"
    /\ Len(IssueItems) = 6
    /\ \A k \in 1..12 :
          CheckIssues[k].severity \in {"critical", "high"} => Represented(CheckIssues[k])
    /\ IssueItems[4].description = "description"

\* The action items that stem from persona suggestions, reduced to the
\* fields the claim speaks of.
PersonaItems ==
    LET items == SelectSeq(Report.action_items,
                           LAMBDA item : item.affected_area = "reader_satisfaction")
    IN  [k \in 1..Len(items) |->
            <<items[k].priority, items[k].type, items[k].description>>]

\* What one persona contributes: nothing at a satisfaction of 60 or above;
\* below it, its first two suggestions (or the only one, or none), labelled
\* with its name.
Contribution(persona) ==
    IF persona.metrics.satisfaction >= 60 THEN <<>>
    ELSE IF Len(persona.suggestions) = 0 THEN <<>>
    ELSE IF Len(persona.suggestions) = 1
    THEN <<<<"high", "improvement", <<"[", persona.persona_name, "] ", persona.suggestions[1]>>>>>>
    ELSE <<<<"high", "improvement", <<"[", persona.persona_name, "] ", persona.suggestions[1]>>>>,
           <<"high", "improvement", <<"[", persona.persona_name, "] ", persona.suggestions[2]>>>>>>

Contributions ==
    Contribution(personaEvaluations[1]) \o Contribution(personaEvaluations[2])
        \o Contribution(personaEvaluations[3])

\* The room the cap of 10 leaves after the critical and high issues.
RoomForPersonas ==
    LET severe == Len(SelectSeq(CheckIssues,
                                LAMBDA i : i.severity = "critical" \/ i.severity = "high"))
    IN  IF severe >= 10 THEN 0 ELSE 10 - severe

\* C15: a persona contributes action-item candidates exactly when its
\* satisfaction is strictly below 60: its first two suggestions, or fewer if
\* it has fewer, each with priority high, type improvement and a description
\* labelled with the persona's name; later suggestions are never used.  The
\* report shows these candidates in persona order, as far as the cap of 10
\* leaves room after the issues.
C15_PersonaCandidatesBelowSixty ==
    ReportReturned =>
        PersonaItems = SubSeq(Contributions, 1,
                              IF Len(Contributions) < RoomForPersonas
                              THEN Len(Contributions) ELSE RoomForPersonas)

\* No issues; the first reader at 40 with three suggestions gives its first
\* two, the second at exactly 60 gives none, the third at 59 gives its only one.
C15_Witness ==
    /\ ReportReturned
    /\ CheckIssues = <<>>
    /\ personaEvaluations[1].metrics.satisfaction = 40
    /\ Len(personaEvaluations[1].suggestions) = 3
    /\ personaEvaluations[2].metrics.satisfaction = 60
    /\ Len(personaEvaluations[2].suggestions) = 1
    /\ personaEvaluations[3].metrics.satisfaction = 59
    /\ PersonaItems = <<<<"high", "improvement", <<"[", "a reader", "] ", "s1">>>>,
                        <<"high", "improvement", <<"[", "a reader", "] ", "s2">>>>,
                        <<"high", "improvement", <<"[", "a reader", "] ", "only">>>>>>

\* The number of critical issues across the three dimensions.
CriticalCount == Len(SelectSeq(CheckIssues, LAMBDA i : i.severity = "critical"))

\* The number of personas reacting positive or very_positive.
PositiveCount ==
    Cardinality({k \in 1..Len(personaEvaluations) :
                    personaEvaluations[k].overall_reaction \in {"positive", "very_positive"}})

\* C16: whatever the overall_score in 0..100, the number of critical issues
\* and the persona reactions, confidence_score lies in 0..100.
C16_ConfidenceWithinBounds ==
    ReportReturned =>
        /\ Report.confidence_score >= 0
        /\ Report.confidence_score <= 100

\* Twelve critical issues and no positive persona on an overall score of 60:
\* the adjustments add up to -10, the confidence is 0.
C16_Witness ==
    /\ ReportReturned
    /\ consistencyCheck.overall_score = 60
    /\ CriticalCount = 12
    /\ PositiveCount = 0
    /\ Report.confidence_score = 0

Clamp(n) == IF n < 0 THEN 0 ELSE IF n > 100 THEN 100 ELSE n

\* The adjustment for persona agreement: +10 when all three react positively,
\* -10 when none does.
Agreement == IF PositiveCount = 3 THEN 10 ELSE IF PositiveCount = 0 THEN 0 - 10 ELSE 0

\* C17: for three persona results, confidence_score is overall_score + a - 5k
\* clamped to [0, 100], a being +10 when all three personas react positive or
\* very_positive, -10 when none does and 0 otherwise, k the number of
\* critical issues; the clamp applies to the final result of the adjustments.
C17_ConfidenceClampedAtTheEnd ==
    (ReportReturned /\ Len(personaEvaluations) = 3) =>
        Report.confidence_score =
            Clamp(consistencyCheck.overall_score + Agreement - 5 * CriticalCount)

\* The part of C17 that holds: the formula gives the confidence wherever
\* overall_score + 10 does not pass 100 before the critical issues are
\* subtracted.
ConfidenceUnlessCappedEarly ==
    (ReportReturned /\ Len(personaEvaluations) = 3) =>
        (~(PositiveCount = 3 /\ consistencyCheck.overall_score > 90 /\ CriticalCount > 0) =>
            Report.confidence_score =
                Clamp(consistencyCheck.overall_score + Agreement - 5 * CriticalCount))

\* The item made of the issue is among the action items.
ItemPresent(issue) ==
    \E k \in 1..Len(Report.action_items) : Report.action_items[k] = ExpectedItem(issue)

CriticalIssues == SelectSeq(CheckIssues, LAMBDA i : i.severity = "critical")

\* C26: the cut to 10 never discards a critical item while keeping a high
\* one: if action_items holds an item of priority high then every critical
\* issue of the input is represented in it, and if some critical issue is not
\* represented then all 10 items are critical.
C26_CutNeverPrefersHighToCritical ==
    ReportReturned =>
        /\ (\E k \in 1..Len(Report.action_items) :
                Report.action_items[k].priority = "high")
              => \A j \in 1..Len(CriticalIssues) : ItemPresent(CriticalIssues[j])
        /\ (\E j \in 1..Len(CriticalIssues) : ~ItemPresent(CriticalIssues[j]))
              => /\ Len(Report.action_items) = 10
                 /\ \A k \in 1..10 : Report.action_items[k].priority = "critical"

\* Twelve critical and three high issues: the first ten critical ones are
\* the items, the last two critical ones and the high ones are cut.
C26_Witness ==
    /\ ReportReturned
    /\ Len(CriticalIssues) = 12
    /\ Len(Report.action_items) = 10
    /\ \A k \in 1..10 : Report.action_items[k] = ExpectedItem(CriticalIssues[k])
    /\ ~ItemPresent(CriticalIssues[11])
    /\ ~ItemPresent(CriticalIssues[12])

(***************************************************************************)
(* Properties of POST /api/analyze (SpecPipeline)                          *)
(***************************************************************************)

\* The request has been answered after generateSettingNote raised.
AnsweredAfterSettingFailure ==
    /\ pc = "responded"
    /\ settingOutcome["generateSettingNote"] # Undefined
    /\ settingOutcome["generateSettingNote"].kind = "throw"

\* The fallback note is in place and the check has run against it.
FallbackNoteInPlace ==
    /\ settingNote # Undefined
    /\ settingNote.title = (IF request.body.text.mentionsHongGildong
                            THEN "Hong Gildong jeon" ELSE "muje")
    /\ {settingNote.characters[k].name : k \in 1..Len(settingNote.characters)}
          = {"Hong Gildong", "Hong Inhyeong", "Hong daegam"}
    /\ checkOutcome # Undefined
    /\ consistencyCheck # Undefined

\* C10: when generateSettingNote raises inside the pipeline, the orchestrator
\* goes on with the hardcoded fallback note, titled after Hong Gildong if the
\* text names him and untitled otherwise; the consistency check, the persona
\* evaluation and the report generation still run, and the request is
\* answered with an Analysis envelope and not an error response.
C10_FallbackNoteKeepsPipelineGoing ==
    AnsweredAfterSettingFailure =>
        /\ FallbackNoteInPlace
        /\ ~request.body.options.skip_personas => personasOutcome # Undefined
        /\ reportOutcome # Undefined
        /\ reportOutcome.kind = "return"
        /\ response.status = 200
        /\ response.body.success
        /\ response.body.data.setting_note = settingNote

\* The part of C10 that holds: the fallback note is substituted and the
\* stages run; with the personas evaluated the answer is an Analysis envelope.
FallbackNoteSubstituted ==
    AnsweredAfterSettingFailure =>
        /\ FallbackNoteInPlace
        /\ reportOutcome # Undefined
        /\ ~request.body.options.skip_personas =>
              /\ personasOutcome # Undefined
              /\ response.status = 200
              /\ response.body.data.setting_note = settingNote
              /\ response.body.data.input.metadata.title = settingNote.title

\* The setting note the request works with is the one generateSettingNote
\* returned, or the fallback note when it threw.
SettingNoteAvailable ==
    /\ settingNote # Undefined
    /\ settingOutcome["generateSettingNote"] # Undefined
    /\ settingNote = IF settingOutcome["generateSettingNote"].kind = "return"
                     THEN settingOutcome["generateSettingNote"].value
                     ELSE GetDefaultSettingNote(request.body.text)

PersonasStarted == \E p \in PersonaTypes : calls[p].pc # "idle"

\* The order of the stages, as a state predicate.
StagesInDependencyOrder ==
    /\ calls["check"].pc # "idle" => SettingNoteAvailable
    /\ PersonasStarted => SettingNoteAvailable
    /\ reportOutcome # Undefined =>
           /\ calls["check"].pc = "done"
           /\ checkOutcome # Undefined
           /\ consistencyCheck # Undefined
           /\ ~request.body.options.skip_personas =>
                  /\ personasOutcome # Undefined
                  /\ \A p \in PersonaTypes : calls[p].pc = "done"

\* C21: within one request the consistency check and the persona evaluation
\* start only after the setting note (extracted or fallback) is available,
\* both are given that same note (it is not assigned again once the check has
\* started), and generateReport runs only after the consistency check and,
\* unless skipped, the persona evaluation have completed.
C21_StagesRunInDependencyOrder ==
    /\ []StagesInDependencyOrder
    /\ [][calls["check"].pc # "idle" => settingNote' = settingNote]_vars

\* A request has been answered after the note was extracted, the check ran
\* and the three personas were evaluated.
C21_Witness ==
    /\ pc = "responded"
    /\ response.status = 200
    /\ ~request.body.options.skip_personas
    /\ settingOutcome["generateSettingNote"].kind = "return"
    /\ settingNote = settingOutcome["generateSettingNote"].value
    /\ checkOutcome # Undefined
    /\ personasOutcome # Undefined
    /\ reportOutcome # Undefined

\* Each relationship of each character of the note names a character of the
\* note.
RelationshipsResolve(note) ==
    \A k \in 1..Len(note.characters) :
        \A r \in 1..Len(note.characters[k].relationships) :
            note.characters[k].relationships[r].character
                \in {note.characters[j].name : j \in 1..Len(note.characters)}

\* C25: every setting note the pipeline passes to the consistency checker and
\* the persona evaluator, extracted by generateSettingNote or the fallback
\* note, satisfies the character invariant: each relationship names a
\* character of the same characters list.
C25_PipelineNoteRelationshipsResolve ==
    settingNote # Undefined => RelationshipsResolve(settingNote)

\* The part of C25 that holds: the note generateSettingNote returned
\* satisfies the invariant.
ExtractedNoteRelationshipsResolve ==
    (/\ settingNote # Undefined
     /\ settingOutcome["generateSettingNote"].kind = "return")
        => RelationshipsResolve(settingNote)

\* The request has been answered and every backend invocation made for it
\* failed: each of the five generateJSON calls used up its attempts.
AnsweredWithEveryInvocationFailed ==
    /\ pc = "responded"
    /\ ~request.body.options.skip_personas
    /\ \A c \in {"setting", "check"} \cup PersonaTypes :
           /\ calls[c].pc = "done"
           /\ calls[c].okAt = 0
           /\ calls[c].invocations = maxRetries

Analysis == response.body.data

\* C27: when every backend invocation of a request fails (personas not
\* skipped) the pipeline still returns an Analysis of status 'success', with
\* the fallback setting note, all consistency scores 75, three neutral persona
\* results, verdict REVISE, weighted total 75, confidence_score 65 and no
\* action items; the status 'partial' is never produced.
C27_AllFallbacksStillSuccess ==
    /\ AnsweredWithEveryInvocationFailed =>
           /\ response.status = 200
           /\ response.body.success
           /\ Analysis.status = "success"
           /\ Analysis.setting_note = GetDefaultSettingNote(request.body.text)
           /\ Analysis.consistency_check.continuity.score = 75
           /\ Analysis.consistency_check.character.score = 75
           /\ Analysis.consistency_check.world_rules.score = 75
           /\ Analysis.consistency_check.overall_score = 75
           /\ Len(Analysis.persona_evaluations) = 3
           /\ \A k \in 1..3 :
                  Analysis.persona_evaluations[k].overall_reaction = "neutral"
           /\ Analysis.aggregate_report.verdict = "REVISE"
           /\ Analysis.aggregate_report.weighted_scores.total = 75
           /\ Analysis.aggregate_report.confidence_score = 65
           /\ Analysis.aggregate_report.action_items = <<>>
    /\ (pc = "responded" /\ response.body.success) => Analysis.status = "success"

\* A request was answered after fifteen failed backend invocations.
C27_Witness ==
    /\ AnsweredWithEveryInvocationFailed
    /\ calls["setting"].invocations = 3
    /\ \A p \in PersonaTypes : calls[p].invocations = 3
    /\ llmCallsCount = 4
    /\ response.body.success

\* The generateJSON calls the request has issued.
CallsIssued == {c \in CallIds : calls[c].pc # "idle"}

RECURSIVE InvocationsOf(_)
InvocationsOf(cs) ==
    IF cs = {} THEN 0
    ELSE LET c == CHOOSE x \in cs : TRUE
         IN  calls[c].invocations + InvocationsOf(cs \ {c})

\* At most five generateJSON calls - one for the setting note, one for the
\* consistency check, three for the personas - and five times maxRetries
\* backend invocations.
PipelineBudget ==
    /\ CallsIssued \subseteq {"setting", "check"} \cup PersonaTypes
    /\ Cardinality(CallsIssued) <= 5
    /\ \A c \in CallsIssued : calls[c].invocations <= maxRetries
    /\ InvocationsOf(CallIds) <= 5 * maxRetries

ValidRequestReceived ==
    /\ request # Undefined
    /\ RequestConforms(request.body)

Responded ==
    /\ pc = "responded"
    /\ response # Undefined
    /\ response.status \in {200, 500}

\* C29: every request with a valid body ends with a response, an Analysis
\* envelope or a structured error, provided each backend invocation returns
\* or throws; the pipeline issues at most five generateJSON calls and so at
\* most 5 * maxRetries backend invocations, and no stage waits for another
\* for ever.
C29_ValidRequestIsAnswered ==
    /\ []PipelineBudget
    /\ ValidRequestReceived ~> Responded

\* A valid request was answered after five generateJSON calls and fifteen
\* backend invocations, the last persona call succeeding on its last attempt.
C29_Witness ==
    /\ ValidRequestReceived
    /\ Responded
    /\ Cardinality(CallsIssued) = 5
    /\ InvocationsOf(CallIds) = 15
    /\ calls["traditional_martial_arts_fan"].okAt = 3

\* A valid request is answered with a structured error.
AnsweredWithError ==
    /\ ValidRequestReceived
    /\ request.apiKey
    /\ Responded
    /\ response.status = 500

(***************************************************************************)
(* Properties of filterIssuesBySeverity and filterActionItemsByPriority    *)
(* (SpecFilter)                                                            *)
(***************************************************************************)

\* critical > high > medium > low
SeverityRank(severity) ==
    CASE severity = "critical" -> 4
      [] severity = "high" -> 3
      [] severity = "medium" -> 2
      [] severity = "low" -> 1

\* The severity of an issue, the priority of an action item.
LevelOf(fn, element) ==
    IF fn = "filterIssuesBySeverity" THEN element.severity ELSE element.priority

\* The elements of the list at or above the threshold, in their order.
RECURSIVE AtOrAbove(_, _, _)
AtOrAbove(fn, list, threshold) ==
    IF list = <<>> THEN <<>>
    ELSE IF SeverityRank(LevelOf(fn, Head(list))) >= SeverityRank(threshold)
         THEN <<Head(list)>> \o AtOrAbove(fn, Tail(list), threshold)
         ELSE AtOrAbove(fn, Tail(list), threshold)

GivenTo(fn) ==
    IF fn = "filterIssuesBySeverity" THEN givenIssues ELSE givenActionItems

\* C22: for every list and threshold, filterIssuesBySeverity and
\* filterActionItemsByPriority return exactly the elements at or above the
\* threshold under critical > high > medium > low, in their original order,
\* and leave the list they were given as it was; both apply one selection
\* rule (low keeps everything, critical keeps only critical).
C22_FiltersKeepAtOrAboveThreshold ==
    /\ \A k \in 1..Len(filterCalls) :
           LET call == filterCalls[k] IN
           /\ call.value = AtOrAbove(call.fn, call.argument, call.threshold)
           /\ call.threshold = "low" => call.value = call.argument
           /\ call.threshold = "critical" =>
                  \A j \in 1..Len(call.value) :
                      LevelOf(call.fn, call.value[j]) = "critical"
    /\ filterCalls # <<>> => filterCalls[1].argument = GivenTo(filterCalls[1].fn)
    /\ \A k, j \in 1..Len(filterCalls) :
           (/\ filterCalls[k].fn = "filterIssuesBySeverity"
            /\ filterCalls[j].fn = "filterActionItemsByPriority"
            /\ filterCalls[k].argument = givenIssues
            /\ filterCalls[j].argument = givenActionItems
            /\ filterCalls[k].threshold = filterCalls[j].threshold)
           => filterCalls[j].value =
                  [n \in 1..Len(filterCalls[k].value) |->
                      IssueToActionItem(filterCalls[k].value[n])]

\* Issues medium, critical, high filtered at high give the critical and the
\* high one in that order, and the action items made of them filtered at high
\* give the two matching items.
C22_Witness ==
    /\ Len(filterCalls) = 2
    /\ Len(givenIssues) = 3
    /\ givenIssues[1].severity = "medium"
    /\ givenIssues[2].severity = "critical"
    /\ givenIssues[3].severity = "high"
    /\ filterCalls[1].fn = "filterIssuesBySeverity"
    /\ filterCalls[1].threshold = "high"
    /\ filterCalls[1].value = <<givenIssues[2], givenIssues[3]>>
    /\ filterCalls[2].fn = "filterActionItemsByPriority"
    /\ filterCalls[2].threshold = "high"
    /\ filterCalls[2].value = <<givenActionItems[2], givenActionItems[3]>>

\* The call after `k` filters what call k returned, with the same filter.
Refilters(k) ==
    /\ k + 1 <= Len(filterCalls)
    /\ filterCalls[k + 1].fn = filterCalls[k].fn
    /\ filterCalls[k + 1].argument = filterCalls[k].value

DirectFilter(fn, list, threshold) ==
    IF fn = "filterIssuesBySeverity"
    THEN FilterIssuesBySeverity(list, threshold)
    ELSE FilterActionItemsByPriority(list, threshold)

\* C23: filtering a result again at the same threshold returns the same
\* elements as filtering once, and filtering at a stricter threshold after a
\* looser one equals filtering the original list at the stricter threshold.
C23_FiltersIdempotentAndNested ==
    \A k \in 1..Len(filterCalls) :
        Refilters(k) =>
            LET first == filterCalls[k]
                second == filterCalls[k + 1]
            IN  /\ second.threshold = first.threshold => second.value = first.value
                /\ SeverityRank(second.threshold) > SeverityRank(first.threshold) =>
                       second.value =
                           DirectFilter(first.fn, first.argument, second.threshold)

\* Action items low, high, medium filtered at medium lose the low one, and
\* the result filtered at high loses the medium one too.
C23_Witness ==
    /\ Len(filterCalls) = 2
    /\ Refilters(1)
    /\ filterCalls[1].fn = "filterActionItemsByPriority"
    /\ Len(givenActionItems) = 3
    /\ givenActionItems[1].priority = "low"
    /\ givenActionItems[2].priority = "high"
    /\ givenActionItems[3].priority = "medium"
    /\ filterCalls[1].argument = givenActionItems
    /\ filterCalls[1].threshold = "medium"
    /\ filterCalls[1].value = <<givenActionItems[2], givenActionItems[3]>>
    /\ filterCalls[2].threshold = "high"
    /\ filterCalls[2].value = <<givenActionItems[2]>>

\* A result filtered again at the threshold it was filtered at.
FilteredTwiceAtOneThreshold ==
    /\ Len(filterCalls) = 2
    /\ Refilters(1)
    /\ filterCalls[1].threshold = "high"
    /\ filterCalls[2].threshold = "high"
    /\ Len(filterCalls[1].argument) = 3
    /\ Len(filterCalls[1].value) = 2
    /\ filterCalls[2].value = filterCalls[1].value

====
